---- MODULE Spec2Model ----
(***************************************************************************)
(* A model of bjec's execution core: the file preparation protocol, the    *)
(* cleanup handler registry, the local concurrent executor (Subprocessor)  *)
(* and the job wrapper that feeds a collector from a processor.            *)
(***************************************************************************)
EXTENDS Integers, Sequences, FiniteSets, TLC

VARIABLES
    runnable,         \* the Process template handed to Subprocessor.process
    stream,           \* params_it: the finite parameter stream
    max_processes,    \* Subprocessor._max_processes
    fs,               \* the file system: existing path |-> [content, mode]
    future,           \* the futures of ThreadPoolExecutor.map, one per parameter set
    frame,            \* the local variables of each _ProcessRunner.run call
    exec_handlers,    \* Subprocessor._cleanup_handlers
    invoked,          \* how often each registered cleanup handler was called
    consumer,         \* the caller iterating over the result of process()
    job,              \* Job._run: the with-statement around collect(process())
    condor,           \* HTCondor._run_job: the submitted cluster, the queue of
                      \* the scheduler and the last status snapshot
    call              \* a call of one of the helpers (Process.Fluid.build, the
                      \* encoders of the submission record, the poll sleep
                      \* generator): its arguments and what it has produced

vars == <<runnable, stream, max_processes, fs, future, frame, exec_handlers,
          invoked, consumer, job, condor, call>>

----------------------------------------------------------------------------
(* Bounds *)

MaxParams == 2
MaxPool == 2

ParamVals == {1, 2}
ExitCodes == {0, 1, 13}

----------------------------------------------------------------------------
(* Values *)

NoPath == [kind |-> "none", name |-> "", n |-> 0]
SrcPath(name) == [kind |-> "src", name |-> name, n |-> 0]

NoExc == [type |-> "", code |-> -1]
Exc(t) == [type |-> t, code |-> -1]
ExcCode(t, c) == [type |-> t, code |-> c]

AllBits == {"ur", "uw", "gr", "gw", "or", "ow"}
TempBits == {"ur", "uw"}
Umask == {"gw", "ow"}

NoDescriptor ==
    [name |-> "", open_path |-> NoPath, process_path |-> NoPath,
     temporary |-> FALSE, cleanup |-> FALSE, path |-> NoPath]

FileDescriptor_cleanup(name, open_path, process_path, temporary, cleanup, path) ==
    [name |-> name, open_path |-> open_path, process_path |-> process_path,
     temporary |-> temporary, cleanup |-> TRUE, path |-> path]

FileDescriptor(name, open_path, process_path, temporary, cleanup, path) ==
    [name |-> name, open_path |-> open_path, process_path |-> process_path,
     temporary |-> temporary, cleanup |-> cleanup, path |-> path]

(* Writeable sources: literal text or bytes, or a file of the file system *)
NoSource == [kind |-> "none", content |-> "", encodable |-> TRUE, path |-> NoPath]
WriteableFromBytes(c) == [kind |-> "bytes", content |-> c, encodable |-> TRUE, path |-> NoPath]
WriteableFromStr(c, ok) == [kind |-> "str", content |-> c, encodable |-> ok, path |-> NoPath]
WriteableFromPath(p) == [kind |-> "path", content |-> "", encodable |-> TRUE, path |-> p]

(* A path of the template is absent, fixed, or formatted from the parameters *)
resolve_path(path, name, params) ==
    CASE path = "none" -> NoPath
      [] path = "fixed" -> [kind |-> "pin", name |-> name, n |-> 0]
      [] path = "source" -> SrcPath(name)
      [] OTHER -> [kind |-> "pin", name |-> name, n |-> params]

InputFile(name, source, path, must_not_exist, cleanup_after_finish) ==
    [name |-> name, source |-> source, path |-> path,
     must_not_exist |-> must_not_exist, mode |-> AllBits,
     cleanup_after_finish |-> cleanup_after_finish]

OutputFile(name, path, must_not_exist, create, cleanup_after_finish) ==
    [name |-> name, path |-> path, must_not_exist |-> must_not_exist,
     create |-> create, mode |-> AllBits,
     cleanup_after_finish |-> cleanup_after_finish]

Stdin(source, path) ==
    [source |-> source, path |-> path, must_not_exist |-> TRUE, mode |-> AllBits,
     cleanup_after_finish |-> FALSE]

Stdout(capture, path) ==
    [capture |-> capture, path |-> path, must_not_exist |-> TRUE, mode |-> AllBits,
     cleanup_after_finish |-> FALSE]

FailureMode(e, err, out) ==
    [interpret_exit_code |-> e, interpret_stderr |-> err, interpret_stdout |-> out]

(* Process.__init__: nothing connected or captured, a non-zero exit code fails *)
DefaultFailureMode == FailureMode("ne0", "none", "none")

Process(stdin, stdout, stderr, inputs, outputs, fm) ==
    [stdin |-> stdin, stdout |-> stdout, stderr |-> stderr,
     input_files |-> inputs, output_files |-> outputs, failure_mode |-> fm]

(* Process.with_params: the specifications resolved against one parameter set *)
with_params(p, params) ==
    [stdin |-> [p.stdin EXCEPT !.path = resolve_path(@, "stdin", params)],
     stdout |-> [p.stdout EXCEPT !.path = resolve_path(@, "stdout", params)],
     stderr |-> [p.stderr EXCEPT !.path = resolve_path(@, "stderr", params)],
     input_files |-> [j \in 1..Len(p.input_files) |->
        [p.input_files[j] EXCEPT !.path = resolve_path(@, p.input_files[j].name, params)]],
     output_files |-> [j \in 1..Len(p.output_files) |->
        [p.output_files[j] EXCEPT !.path = resolve_path(@, p.output_files[j].name, params)]],
     failure_mode |-> p.failure_mode]

----------------------------------------------------------------------------
(* The file system *)

exists(f, path) == path \in DOMAIN f

File(content, mode) == [content |-> content, mode |-> mode]

put(f, path, file) == [q \in DOMAIN f \cup {path} |-> IF q = path THEN file ELSE f[q]]

unlink(f, path) == [q \in DOMAIN f \ {path} |-> f[q]]

chmod(f, path, mode) == [f EXCEPT ![path].mode = mode]

write_file_empty(f, path, content) ==
    IF exists(f, path) THEN [f EXCEPT ![path].content = ""]
    ELSE put(f, path, File("", AllBits \ Umask))

write_file(f, path, content) ==
    IF exists(f, path) THEN [f EXCEPT ![path].content = content]
    ELSE put(f, path, File(content, AllBits \ Umask))

(* tempfile.mkstemp: a fresh name, unique per invocation and resource *)
mkstemp(i, k) == [kind |-> "tmp", name |-> "", n |-> 10 * i + k]

HasAttr(obj, attr) == attr \in DOMAIN obj

----------------------------------------------------------------------------
(* Cleanup handler registry and exit stack *)

UnlinkHandler(path, i, k) == [op |-> "unlink", path |-> path, owner |-> i, k |-> k]

count(cnt, h) == IF h \in DOMAIN cnt THEN cnt[h] ELSE 0

bump(cnt, h) == [g \in DOMAIN cnt \cup {h} |-> IF g = h THEN count(cnt, h) + 1 ELSE cnt[g]]

(* HandlersList.__call__: the handlers in order; the first one that raises
   ends the call *)
RECURSIVE HandlersList_call(_, _, _)
HandlersList_call(handlers, f, cnt) ==
    IF handlers = <<>> THEN [fs |-> f, invoked |-> cnt, exc |-> NoExc]
    ELSE LET h == Head(handlers)
         IN IF exists(f, h.path)
            THEN HandlersList_call(Tail(handlers), unlink(f, h.path), bump(cnt, h))
            ELSE [fs |-> f, invoked |-> bump(cnt, h), exc |-> Exc("FileNotFoundError")]

(* CallbackOnException.__exit__: the callback runs only if an exception is
   passing; an exception of the callback replaces it *)
CallbackOnException_exit(handlers, f, cnt, exc) ==
    IF exc = NoExc THEN [fs |-> f, invoked |-> cnt, exc |-> NoExc]
    ELSE LET r == HandlersList_call(handlers, f, cnt)
         IN [r EXCEPT !.exc = IF r.exc = NoExc THEN exc ELSE r.exc]

(* ExitStack.__exit__: the callbacks in reverse order of registration, all of
   them; the last exception raised is the one that leaves the stack. A
   callback is set_mode of prepare_output_file, the closing of a descriptor,
   or os.unlink of a link or placeholder of the transfer mode *)
RECURSIVE ExitStack_exit(_, _, _)
ExitStack_exit(callbacks, f, exc) ==
    IF callbacks = <<>> THEN [fs |-> f, exc |-> exc]
    ELSE LET cb == callbacks[Len(callbacks)]
             rest == SubSeq(callbacks, 1, Len(callbacks) - 1)
         IN IF cb.op = "set_mode"
            THEN IF exists(f, cb.path)
                 THEN ExitStack_exit(rest, chmod(f, cb.path, cb.mode \ Umask), exc)
                 ELSE ExitStack_exit(rest, f, Exc("_ProcessFailedError"))
            ELSE IF cb.op = "unlink"
            THEN IF exists(f, cb.path)
                 THEN ExitStack_exit(rest, unlink(f, cb.path), exc)
                 ELSE ExitStack_exit(rest, f, Exc("FileNotFoundError"))
            ELSE ExitStack_exit(rest, f, exc)

----------------------------------------------------------------------------
(* File preparation protocol *)

Prepared(exc, f, d, ex, cl) ==
    [exc |-> exc, fs |-> f, descriptor |-> d, exit_handlers |-> ex, cleanup_handlers |-> cl]

Raise(exc, f) == Prepared(exc, f, NoDescriptor, <<>>, <<>>)

(* Writeable.write_to(WriteOpenableFromPath(path)) *)
write_to(source, f, path) ==
    CASE source.kind = "path" ->
            IF exists(f, source.path)
            THEN [exc |-> NoExc, fs |-> write_file(f, path, f[source.path].content)]
            ELSE [exc |-> Exc("FileNotFoundError"), fs |-> f]
      [] source.kind = "str" /\ ~source.encodable ->
            [exc |-> Exc("UnicodeEncodeError"), fs |-> write_file(f, path, "")]
      [] OTHER -> [exc |-> NoExc, fs |-> write_file(f, path, source.content)]

(* os.path.samefile: both paths are stat'ed *)
samefile(f, a, b) ==
    IF exists(f, a) /\ exists(f, b) THEN [exc |-> NoExc, same |-> a = b]
    ELSE [exc |-> Exc("FileNotFoundError"), same |-> FALSE]

(* prepare_input_file from the point where the descriptor is known *)
write_and_register(spec, descriptor, do_write, f, i, k) ==
    LET w == IF do_write THEN write_to(spec.source, f, descriptor.open_path)
             ELSE [exc |-> NoExc, fs |-> f]
    IN IF w.exc # NoExc THEN Raise(w.exc, w.fs)
       ELSE Prepared(NoExc, w.fs, descriptor, <<>>,
                IF descriptor.cleanup
                THEN <<UnlinkHandler(descriptor.open_path, i, k)>> ELSE <<>>)

prepare_input_file_copying(spec, name0, i, k, f) ==
    IF spec.source.kind = "none" THEN Raise(Exc("Exception"), f)
    ELSE write_and_register(spec,
            FileDescriptor(IF name0 = "" THEN spec.name ELSE name0,
                           mkstemp(i, k), mkstemp(i, k), TRUE, TRUE, NoPath),
            TRUE, put(f, mkstemp(i, k), File("", TempBits)), i, k)

prepare_input_file(spec, name0, i, k, f) ==
    LET name == IF name0 = "" /\ HasAttr(spec, "name") THEN spec.name ELSE name0
        from_path == spec.source.kind = "path"
        same == samefile(f, spec.path, spec.source.path)
    IN
    IF spec.source.kind = "none" THEN Raise(Exc("Exception"), f)
    ELSE IF from_path /\ spec.path # NoPath /\ same.exc # NoExc THEN Raise(same.exc, f)
    ELSE IF from_path /\ spec.path # NoPath /\ same.same
        THEN Raise(Exc("_ProcessFailedError"), f)
    ELSE IF spec.path # NoPath THEN
        IF ~HasAttr(spec, "create_parents") THEN Raise(Exc("AttributeError"), f)
        ELSE IF exists(f, spec.path) /\ spec.must_not_exist
            THEN Raise(Exc("_ProcessFailedError"), f)
        ELSE write_and_register(spec,
                FileDescriptor(name, spec.path, spec.path, FALSE,
                               spec.cleanup_after_finish, spec.path),
                TRUE,
                IF exists(f, spec.path) THEN chmod(f, spec.path, spec.mode \ Umask)
                ELSE put(f, spec.path, File("", spec.mode \ Umask)),
                i, k)
    ELSE IF from_path THEN
        write_and_register(spec,
            FileDescriptor(name, spec.source.path, spec.source.path, FALSE, FALSE, NoPath),
            FALSE, f, i, k)
    ELSE
        write_and_register(spec,
            FileDescriptor(name, mkstemp(i, k), mkstemp(i, k), TRUE, TRUE, NoPath),
            TRUE, put(f, mkstemp(i, k), File("", TempBits)), i, k)

(* prepare_output_file from the point where the descriptor is known *)
remove_and_register_keeping(spec, descriptor, ex, f, i, k) ==
    Prepared(NoExc, f, descriptor, ex,
        IF descriptor.cleanup THEN <<UnlinkHandler(descriptor.open_path, i, k)>> ELSE <<>>)

remove_and_register(spec, descriptor, ex, f, i, k) ==
    Prepared(NoExc,
        IF HasAttr(spec, "create") /\ ~spec.create /\ exists(f, descriptor.open_path)
        THEN unlink(f, descriptor.open_path) ELSE f,
        descriptor, ex,
        IF descriptor.cleanup THEN <<UnlinkHandler(descriptor.open_path, i, k)>> ELSE <<>>)

prepare_output_file_clobbering(spec, name0, i, k, f) ==
    LET name == IF name0 = "" /\ HasAttr(spec, "name") THEN spec.name ELSE name0
    IN
    IF HasAttr(spec, "capture") /\ ~spec.capture THEN Raise(Exc("Exception"), f)
    ELSE IF spec.path # NoPath THEN
        IF ~HasAttr(spec, "create_parents")
        THEN Raise(Exc("AttributeError"), put(f, spec.path, File("", spec.mode \ Umask)))
        ELSE IF exists(f, spec.path) /\ spec.must_not_exist
            THEN Raise(Exc("_ProcessFailedError"), put(f, spec.path, File("", spec.mode \ Umask)))
        ELSE remove_and_register(spec,
                FileDescriptor(name, spec.path, spec.path, FALSE,
                               spec.cleanup_after_finish, spec.path),
                <<[op |-> "set_mode", path |-> spec.path, mode |-> spec.mode]>>,
                IF exists(f, spec.path) THEN f
                ELSE put(f, spec.path, File("", spec.mode \ Umask)),
                i, k)
    ELSE
        remove_and_register(spec,
            FileDescriptor(name, mkstemp(i, k), mkstemp(i, k), TRUE, TRUE, NoPath),
            <<>>, put(f, mkstemp(i, k), File("", TempBits)), i, k)

prepare_output_file(spec, name0, i, k, f) ==
    LET name == IF name0 = "" /\ HasAttr(spec, "name") THEN spec.name ELSE name0
    IN
    IF HasAttr(spec, "capture") /\ ~spec.capture THEN Raise(Exc("Exception"), f)
    ELSE IF spec.path # NoPath THEN
        IF ~HasAttr(spec, "create_parents") THEN Raise(Exc("AttributeError"), f)
        ELSE IF exists(f, spec.path) /\ spec.must_not_exist
            THEN Raise(Exc("_ProcessFailedError"), f)
        ELSE remove_and_register(spec,
                FileDescriptor(name, spec.path, spec.path, FALSE,
                               spec.cleanup_after_finish, spec.path),
                <<[op |-> "set_mode", path |-> spec.path, mode |-> spec.mode]>>,
                IF exists(f, spec.path) THEN f
                ELSE put(f, spec.path, File("", spec.mode \ Umask)),
                i, k)
    ELSE
        remove_and_register(spec,
            FileDescriptor(name, mkstemp(i, k), mkstemp(i, k), TRUE, TRUE, NoPath),
            <<>>, put(f, mkstemp(i, k), File("", TempBits)), i, k)

(* _ProcessRunner._prepare_stdin: the prepared file is opened for reading and
   the descriptor is closed by the exit stack *)
prepare_stdin(spec, i, k, f) ==
    LET r == prepare_input_file(spec, "stdin", i, k, f)
    IN IF r.exc # NoExc THEN r
       ELSE IF ~exists(r.fs, r.descriptor.open_path)
            THEN [Raise(Exc("FileNotFoundError"), r.fs) EXCEPT
                    !.cleanup_handlers = r.cleanup_handlers]
       ELSE [r EXCEPT !.exit_handlers =
                @ \o <<[op |-> "close", path |-> r.descriptor.open_path, mode |-> {}]>>]

(* _ProcessRunner._prepare_stdout: the prepared file is opened for writing,
   truncated, and the descriptor is closed by the exit stack *)
prepare_stdout(spec, name, i, k, f) ==
    LET r == prepare_output_file(spec, name, i, k, f)
    IN IF r.exc # NoExc THEN r
       ELSE IF ~exists(r.fs, r.descriptor.open_path)
            THEN [Raise(Exc("FileNotFoundError"), r.fs) EXCEPT
                    !.exit_handlers = r.exit_handlers,
                    !.cleanup_handlers = r.cleanup_handlers]
       ELSE [r EXCEPT !.fs = write_file(r.fs, r.descriptor.open_path, ""),
                      !.exit_handlers =
                @ \o <<[op |-> "close", path |-> r.descriptor.open_path, mode |-> {}]>>]

----------------------------------------------------------------------------
(* Results and failure classification *)

NoAccessor == [name |-> "", open_path |-> NoPath, path |-> NoPath]

(* FileDescriptor.accessor *)
accessor(d) == [name |-> d.name, open_path |-> d.open_path, path |-> d.path]

opt_accessor(d) == IF d = NoDescriptor THEN NoAccessor ELSE accessor(d)

(* Result.__init__ *)
Result(exit_code, stdin, stdout, stderr, input_files, output_files) ==
    [exit_code |-> 0, stdin |-> stdin, stdout |-> stdout, stderr |-> stderr,
     input_files |-> input_files, output_files |-> output_files]

NoResult == Result(0, NoAccessor, NoAccessor, NoAccessor, <<>>, <<>>)

(* The predicates a template can carry. "ne0" is the predicate installed by
   Process.__init__; "ge2" and "nonempty" stand for user predicates, and
   "raises" for a user predicate that raises *)
interpret_exit_code_inverted(pred, code) ==
    CASE pred = "ne0" -> IF code = 0 THEN "true" ELSE "false"
      [] pred = "ge2" -> IF code >= 2 THEN "true" ELSE "false"
      [] OTHER -> "raise"

interpret_exit_code(pred, code) ==
    CASE pred = "ne0" -> IF code # 0 THEN "true" ELSE "false"
      [] pred = "ge2" -> IF code >= 2 THEN "true" ELSE "false"
      [] OTHER -> "raise"

(* A stream predicate is handed the accessor of Result.stdout/stderr, which
   raises when the stream was not captured, and reads the file *)
interpret_stream(pred, acc, f) ==
    IF acc = NoAccessor \/ ~exists(f, acc.open_path) \/ pred = "raises" THEN "raise"
    ELSE IF f[acc.open_path].content # "" THEN "true" ELSE "false"

(* _ProcessRunner._check_for_failure: the exception it leaves with and the
   predicates it has called *)
check_for_failure(failure_mode, result, f) ==
    LET e == IF failure_mode.interpret_exit_code = "none" THEN "false"
             ELSE interpret_exit_code(failure_mode.interpret_exit_code, result.exit_code)
        err == IF failure_mode.interpret_stderr = "none" THEN "false"
               ELSE interpret_stream(failure_mode.interpret_stderr, result.stderr, f)
        out == IF failure_mode.interpret_stdout = "none" THEN "false"
               ELSE interpret_stream(failure_mode.interpret_stdout, result.stdout, f)
        ev1 == IF failure_mode.interpret_exit_code = "none" THEN <<>> ELSE <<"exit_code">>
        ev2 == IF failure_mode.interpret_stderr = "none" THEN ev1 ELSE ev1 \o <<"stderr">>
        ev3 == IF failure_mode.interpret_stdout = "none" THEN ev2 ELSE ev2 \o <<"stdout">>
    IN
    IF e = "raise" THEN [exc |-> Exc("PredicateError"), evals |-> ev1]
    ELSE IF e = "true"
        THEN [exc |-> ExcCode("_ProcessFailedError", result.exit_code), evals |-> ev1]
    ELSE IF err = "raise" THEN [exc |-> Exc("PredicateError"), evals |-> ev2]
    ELSE IF err = "true" THEN [exc |-> Exc("_ProcessFailedError"), evals |-> ev2]
    ELSE IF out = "raise" THEN [exc |-> Exc("PredicateError"), evals |-> ev3]
    ELSE IF out = "true" THEN [exc |-> Exc("_ProcessFailedError"), evals |-> ev3]
    ELSE [exc |-> NoExc, evals |-> ev3]

----------------------------------------------------------------------------
(* Templates and parameter streams *)

NoStdin == Stdin(NoSource, "none")
NoCapture == Stdout(FALSE, "none")
Capture == Stdout(TRUE, "none")
Literal(name) == InputFile(name, WriteableFromBytes("B"), "none", TRUE, FALSE)
TempOutput(name, create) == OutputFile(name, "none", TRUE, create, FALSE)

Templates == {
    \* bash -c "exit N", nothing captured
    Process(NoStdin, NoCapture, NoCapture, <<>>, <<>>, DefaultFailureMode),
    \* stderr captured and interpreted, one literal input file
    Process(NoStdin, NoCapture, Capture, <<Literal("a")>>, <<>>,
            FailureMode("none", "nonempty", "none")),
    \* a predicate that raises
    Process(NoStdin, NoCapture, Capture, <<>>, <<>>,
            FailureMode("none", "raises", "none")),
    \* two temporary outputs, the first one left to the process to create
    Process(NoStdin, NoCapture, Capture, <<>>,
            <<TempOutput("o", FALSE), TempOutput("p", TRUE)>>,
            FailureMode("none", "nonempty", "none")),
    \* a literal input whose text cannot be encoded, after a good one
    Process(NoStdin, NoCapture, NoCapture,
            <<Literal("a"), InputFile("b", WriteableFromStr("S", FALSE), "none", TRUE, FALSE)>>,
            <<>>, DefaultFailureMode),
    \* all three predicates configured
    Process(NoStdin, Capture, Capture, <<>>, <<>>,
            FailureMode("ge2", "nonempty", "nonempty")),
    \* an output pinned to a path formatted from the parameters
    Process(NoStdin, NoCapture, NoCapture, <<Literal("a")>>,
            <<OutputFile("o", "byparam", TRUE, TRUE, FALSE)>>, DefaultFailureMode),
    \* stdin connected, an input taken from an existing file
    Process(Stdin(WriteableFromBytes("I"), "none"), NoCapture, NoCapture,
            <<InputFile("a", WriteableFromPath(SrcPath("a")), "none", TRUE, FALSE)>>,
            <<>>, DefaultFailureMode)
}

(* The parameter streams: parameter sets matter to the executor only through
   the paths formatted from them, so streams are taken up to renaming of the
   values, the first parameter set being 1 *)
Streams == {s \in UNION {[1..n -> ParamVals] : n \in 0..MaxParams} : s = <<>> \/ s[1] = 1}

(* The files that exist before the executor is used *)
InitialFiles == [q \in {SrcPath("a")} |-> File("A", AllBits \ Umask)]

(* The resources of a resolved process in the order _run_subprocess prepares
   them: stdin, stdout, stderr, the input files, the output files *)
Resources(p) ==
    (IF p.stdin.source.kind # "none" THEN <<[slot |-> "stdin", spec |-> p.stdin]>> ELSE <<>>)
    \o (IF p.stdout.capture THEN <<[slot |-> "stdout", spec |-> p.stdout]>> ELSE <<>>)
    \o (IF p.stderr.capture THEN <<[slot |-> "stderr", spec |-> p.stderr]>> ELSE <<>>)
    \o [j \in 1..Len(p.input_files) |-> [slot |-> "in", spec |-> p.input_files[j]]]
    \o [j \in 1..Len(p.output_files) |-> [slot |-> "out", spec |-> p.output_files[j]]]

----------------------------------------------------------------------------
(* The local executor *)

IdleFrame ==
    [pc |-> "idle", k |-> 0,
     stdin |-> NoDescriptor, stdout |-> NoDescriptor, stderr |-> NoDescriptor,
     input_files |-> <<>>, output_files |-> <<>>,
     stack |-> <<>>, cleanup_handlers |-> <<>>,
     returncode |-> -1, out |-> "", err |-> "", result |-> NoResult, made |-> {},
     evals |-> <<>>, verdict |-> "", spawned |-> 0, pre |-> <<>>]

NoFuture == [state |-> "unsubmitted", exc |-> NoExc, result |-> NoResult]

(* No helper is being called *)
NoCall == [pc |-> "none"]

(* No cluster: HTCondor.process has not been called *)
NoCluster ==
    [pc |-> "none", processes |-> <<>>, yielded |-> 0, stack |-> <<>>,
     cleanup_handlers |-> <<>>, queue |-> <<>>, job_states |-> <<>>, polled |-> FALSE,
     removals |-> 0, results |-> <<>>, evals |-> 0, exc |-> NoExc,
     cause |-> NoExc, job |-> [transfer_files |-> TRUE, commands |-> <<>>],
     records |-> <<>>]

N == Len(stream)

Running == {i \in 1..N : future[i].state = "running"}

InitCommon ==
    /\ runnable \in Templates
    /\ stream \in Streams
    /\ max_processes \in 1..MaxPool
    /\ fs = InitialFiles
    /\ future = [i \in 1..Len(stream) |-> NoFuture]
    /\ frame = [i \in 1..Len(stream) |-> IdleFrame]
    /\ exec_handlers = <<>>
    /\ invoked = <<>>
    /\ consumer = [pc |-> "init", pos |-> 1, received |-> <<>>, exc |-> NoExc]
    /\ condor = NoCluster
    /\ call = NoCall

Init ==
    /\ InitCommon
    /\ job = [pc |-> "none", processor |-> "None", collector |-> "None",
              kind |-> "Noop", exc |-> NoExc]

(* Subprocessor.process: ThreadPoolExecutor.map submits one call of
   _ProcessRunner.run per element of params_it and returns the iterator
   over their results *)
pool_map(futures) == [i \in DOMAIN futures |-> [futures[i] EXCEPT !.state = "pending"]]

Subprocessor_process ==
    /\ job.pc = "none"
    /\ consumer.pc = "init"
    /\ future' = pool_map(future)
    /\ consumer' = [consumer EXCEPT !.pc = "iterating"]
    /\ UNCHANGED <<call, condor, runnable, stream, max_processes, fs, frame, exec_handlers, invoked, job>>

(* A worker thread of the pool takes the oldest pending work item *)
run_begin(i) ==
    /\ future[i].state = "pending"
    /\ \A j \in 1..(i - 1) : future[j].state # "pending"
    /\ Cardinality(Running) < max_processes
    /\ future' = [future EXCEPT ![i].state = "running"]
    /\ frame' = [frame EXCEPT ![i].pc = "prepare", ![i].k = 1]
    /\ UNCHANGED <<call, condor, runnable, stream, max_processes, fs, exec_handlers, invoked, consumer, job>>

(* The call of run() ends and its future is resolved *)
Finish(i, fr, f, cnt, exc, result) ==
    /\ fs' = f
    /\ invoked' = cnt
    /\ future' = [future EXCEPT ![i] = [state |-> "finished", exc |-> exc, result |-> result]]
    /\ frame' = [frame EXCEPT ![i] = [fr EXCEPT !.pc = "done"]]

(* An exception leaves the two with-blocks of _run_subprocess: the exit stack
   unwinds, then CallbackOnException calls the cleanup handlers *)
Unwind(i, fr, f, exc) ==
    LET e == ExitStack_exit(fr.stack, f, exc)
        c == CallbackOnException_exit(fr.cleanup_handlers, e.fs, invoked, e.exc)
    IN Finish(i, fr, c.fs, c.invoked, c.exc, NoResult)

prepare_resource(res, i, k, f) ==
    CASE res.slot = "stdin" -> prepare_stdin(res.spec, i, k, f)
      [] res.slot = "stdout" -> prepare_stdout(res.spec, "stdout", i, k, f)
      [] res.slot = "stderr" -> prepare_stdout(res.spec, "stderr", i, k, f)
      [] res.slot = "in" -> prepare_input_file(res.spec, "", i, k, f)
      [] OTHER -> prepare_output_file(res.spec, "", i, k, f)

record_descriptor(fr, slot, d) ==
    CASE slot = "stdin" -> [fr EXCEPT !.stdin = d]
      [] slot = "stdout" -> [fr EXCEPT !.stdout = d]
      [] slot = "stderr" -> [fr EXCEPT !.stderr = d]
      [] slot = "in" -> [fr EXCEPT !.input_files = Append(@, d)]
      [] OTHER -> [fr EXCEPT !.output_files = Append(@, d)]

(* _run_subprocess prepares the next resource of the invocation *)
prepare(i) ==
    LET resources == Resources(with_params(runnable, stream[i]))
        k == frame[i].k
    IN
    /\ frame[i].pc = "prepare"
    /\ k <= Len(resources)
    /\ LET r == prepare_resource(resources[k], i, k, fs)
           fr == [frame[i] EXCEPT !.stack = @ \o r.exit_handlers,
                                  !.cleanup_handlers = @ \o r.cleanup_handlers,
                                  !.k = k + 1,
                                  !.pre = Append(@, exists(fs, resources[k].spec.path))]
       IN IF r.exc # NoExc THEN Unwind(i, fr, r.fs, r.exc)
          ELSE /\ fs' = r.fs
               /\ frame' = [frame EXCEPT ![i] =
                               record_descriptor(fr, resources[k].slot, r.descriptor)]
               /\ UNCHANGED <<future, invoked>>
    /\ UNCHANGED <<call, condor, runnable, stream, max_processes, exec_handlers, consumer, job>>

Popen_eager(i) ==
    /\ frame[i].pc = "prepare"
    /\ frame' = [frame EXCEPT ![i].pc = "spawned", ![i].spawned = @ + 1]
    /\ UNCHANGED <<call, condor, runnable, stream, max_processes, fs, future, exec_handlers, invoked,
                   consumer, job>>

(* subprocess.Popen: the external process is started *)
Popen(i) ==
    /\ frame[i].pc = "prepare"
    /\ frame[i].k > Len(Resources(with_params(runnable, stream[i])))
    /\ frame' = [frame EXCEPT ![i].pc = "spawned", ![i].spawned = @ + 1]
    /\ UNCHANGED <<call, condor, runnable, stream, max_processes, fs, future, exec_handlers, invoked,
                   consumer, job>>

(* What the external process leaves behind: text on the captured streams and
   its output files, written or not *)
RECURSIVE write_outputs(_, _)
write_outputs(f, descriptors) ==
    IF descriptors = <<>> THEN f
    ELSE write_outputs(write_file(f, Head(descriptors).process_path, "O"), Tail(descriptors))

process_effects(fr, f, out, err, creates) ==
    LET f1 == IF fr.stdout # NoDescriptor /\ exists(f, fr.stdout.open_path)
              THEN write_file(f, fr.stdout.open_path, out) ELSE f
        f2 == IF fr.stderr # NoDescriptor /\ exists(f1, fr.stderr.open_path)
              THEN write_file(f1, fr.stderr.open_path, err) ELSE f1
    IN IF creates THEN write_outputs(f2, fr.output_files) ELSE f2

(* The paths the Result of an invocation refers to *)
referenced(fr) ==
    {d.open_path : d \in ({fr.stdin, fr.stdout, fr.stderr} \ {NoDescriptor})
                          \cup {fr.input_files[j] : j \in 1..Len(fr.input_files)}
                          \cup {fr.output_files[j] : j \in 1..Len(fr.output_files)}}

(* s.wait() returns; the exit stack is left and the Result is built *)
wait(i) ==
    /\ frame[i].pc = "spawned"
    /\ \E code \in ExitCodes,
          out \in IF frame[i].stdout = NoDescriptor THEN {""} ELSE {"", "O"},
          err \in IF frame[i].stderr = NoDescriptor THEN {""} ELSE {"", "E"},
          creates \in IF frame[i].output_files = <<>> THEN {TRUE} ELSE BOOLEAN :
        LET fr == [frame[i] EXCEPT !.returncode = code, !.out = out, !.err = err]
            f == process_effects(fr, fs, out, err, creates)
            e == ExitStack_exit(fr.stack, f, NoExc)
        IN IF e.exc # NoExc
           THEN LET c == CallbackOnException_exit(fr.cleanup_handlers, e.fs, invoked, e.exc)
                IN Finish(i, fr, c.fs, c.invoked, c.exc, NoResult)
           ELSE /\ fs' = e.fs
                /\ frame' = [frame EXCEPT ![i] = [fr EXCEPT
                      !.pc = "check",
                      !.made = {p \in referenced(fr) : exists(e.fs, p)},
                      !.result = Result(fr.returncode,
                                    opt_accessor(fr.stdin), opt_accessor(fr.stdout),
                                    opt_accessor(fr.stderr),
                                    [j \in 1..Len(fr.input_files) |-> accessor(fr.input_files[j])],
                                    [j \in 1..Len(fr.output_files) |-> accessor(fr.output_files[j])])]]
                /\ UNCHANGED <<future, invoked>>
    /\ UNCHANGED <<call, condor, runnable, stream, max_processes, exec_handlers, consumer, job>>

(* run(): the try statement around _check_for_failure *)
check(i) ==
    /\ frame[i].pc = "check"
    /\ LET c == check_for_failure(with_params(runnable, stream[i]).failure_mode,
                                  frame[i].result, fs)
           fr == [frame[i] EXCEPT
                    !.evals = c.evals,
                    !.verdict = IF c.exc = NoExc THEN "ok"
                                ELSE IF c.exc.type = "_ProcessFailedError" THEN "failed"
                                ELSE "raised"]
           h == HandlersList_call(fr.cleanup_handlers, fs, invoked)
       IN IF c.exc = NoExc
          THEN /\ frame' = [frame EXCEPT ![i] = [fr EXCEPT !.pc = "merge"]]
               /\ UNCHANGED <<fs, invoked, future>>
          ELSE IF c.exc.type = "_ProcessFailedError"
          THEN Finish(i, fr, h.fs, h.invoked, IF h.exc # NoExc THEN h.exc ELSE c.exc, NoResult)
          ELSE IF h.exc # NoExc
          THEN Finish(i, fr, h.fs, h.invoked, h.exc, NoResult)
          ELSE /\ fs' = h.fs
               /\ invoked' = h.invoked
               /\ frame' = [frame EXCEPT ![i] = [fr EXCEPT !.pc = "merge"]]
               /\ UNCHANGED future
    /\ UNCHANGED <<call, condor, runnable, stream, max_processes, exec_handlers, consumer, job>>

(* run(): under the lock the handlers of the invocation are added to the
   registry of the executor, and the pair is returned *)
merge(i) ==
    /\ frame[i].pc = "merge"
    /\ exec_handlers' = exec_handlers \o frame[i].cleanup_handlers
    /\ Finish(i, frame[i], fs, invoked, NoExc, frame[i].result)
    /\ UNCHANGED <<call, condor, runnable, stream, max_processes, consumer, job>>

(* The iterator returned by map: the results in the order of submission; an
   exception of a call is raised to the consumer, and the futures that have
   not started are cancelled *)
cancel_unfinished(fut) ==
    IF fut.state \in {"pending", "running"} THEN [fut EXCEPT !.state = "cancelled"] ELSE fut

cancel(fut) == IF fut.state = "pending" THEN [fut EXCEPT !.state = "cancelled"] ELSE fut

map_next ==
    /\ consumer.pc = "iterating"
    /\ IF consumer.pos > N
       THEN /\ consumer' = [consumer EXCEPT !.pc = "exhausted"]
            /\ UNCHANGED future
       ELSE /\ future[consumer.pos].state = "finished"
            /\ IF future[consumer.pos].exc = NoExc
               THEN /\ consumer' = [consumer EXCEPT
                          !.pos = @ + 1,
                          !.received = Append(@, [params |-> stream[consumer.pos],
                                                  result |-> future[consumer.pos].result])]
                    /\ UNCHANGED future
               ELSE /\ consumer' = [consumer EXCEPT !.pc = "raised",
                                                    !.exc = future[consumer.pos].exc]
                    /\ future' = [j \in DOMAIN future |-> cancel(future[j])]
    /\ UNCHANGED <<call, condor, runnable, stream, max_processes, fs, frame, exec_handlers, invoked, job>>

(* Subprocessor.__exit__: the pool is shut down, which waits for the workers,
   then the handlers of the registry are called and the registry is cleared *)
pool_idle == \A i \in 1..N : future[i].state \in {"unsubmitted", "finished", "cancelled"}

Subprocessor_exit ==
    /\ job.pc = "none"
    /\ consumer.pc \in {"exhausted", "raised"}
    /\ pool_idle
    /\ LET h == HandlersList_call(exec_handlers, fs, invoked)
       IN /\ fs' = h.fs
          /\ invoked' = h.invoked
          /\ exec_handlers' = IF h.exc = NoExc THEN <<>> ELSE exec_handlers
          /\ consumer' = [consumer EXCEPT !.pc = "exited",
                             !.exc = IF h.exc # NoExc THEN h.exc ELSE @]
    /\ UNCHANGED <<call, condor, runnable, stream, max_processes, future, frame, job>>

Next ==
    \/ Subprocessor_process
    \/ \E i \in 1..N : run_begin(i)
    \/ \E i \in 1..N : prepare(i)
    \/ \E i \in 1..N : Popen(i)
    \/ \E i \in 1..N : wait(i)
    \/ \E i \in 1..N : check(i)
    \/ \E i \in 1..N : merge(i)
    \/ map_next
    \/ Subprocessor_exit

Spec == Init /\ [][Next]_vars

----------------------------------------------------------------------------
(* The preparation protocol on pinned paths, file references and temporary
   files: the executor above with one worker, run on templates that use
   them. The invocations run one after the other, the first over a file
   system in which the pinned paths exist already or do not, the later ones
   over what the earlier ones left *)

PrepTemplates == {
    \* a literal input pinned to a path that must not exist
    Process(NoStdin, NoCapture, NoCapture,
            <<InputFile("x", WriteableFromBytes("B"), "fixed", TRUE, FALSE)>>, <<>>,
            DefaultFailureMode),
    \* a literal input pinned to a path that may exist, deleted after the run
    Process(NoStdin, NoCapture, NoCapture,
            <<InputFile("x", WriteableFromBytes("B"), "fixed", FALSE, TRUE)>>, <<>>,
            DefaultFailureMode),
    \* an input taken from a file and pinned to the path of that file
    Process(NoStdin, NoCapture, NoCapture,
            <<InputFile("a", WriteableFromPath(SrcPath("a")), "source", FALSE, FALSE)>>, <<>>,
            DefaultFailureMode),
    \* an input taken from a file and pinned to another path
    Process(NoStdin, NoCapture, NoCapture,
            <<InputFile("x", WriteableFromPath(SrcPath("a")), "fixed", FALSE, FALSE)>>, <<>>,
            DefaultFailureMode),
    \* an output pinned to a path, created beforehand or left to the process
    Process(NoStdin, NoCapture, NoCapture, <<>>,
            <<OutputFile("o", "fixed", FALSE, TRUE, FALSE)>>, DefaultFailureMode),
    Process(NoStdin, NoCapture, NoCapture, <<>>,
            <<OutputFile("o", "fixed", FALSE, FALSE, FALSE)>>, DefaultFailureMode),
    \* an output pinned to a path that must not exist, deleted after the run
    Process(NoStdin, NoCapture, NoCapture, <<>>,
            <<OutputFile("o", "fixed", TRUE, TRUE, TRUE)>>, DefaultFailureMode),
    \* a literal input in a temporary file, stderr captured and interpreted
    Process(NoStdin, NoCapture, Capture, <<Literal("a")>>, <<>>,
            FailureMode("none", "nonempty", "none")),
    \* stdin literal, an input taken from a file, an output the process creates
    Process(Stdin(WriteableFromBytes("I"), "none"), NoCapture, NoCapture,
            <<InputFile("a", WriteableFromPath(SrcPath("a")), "none", TRUE, FALSE)>>,
            <<TempOutput("o", FALSE)>>, DefaultFailureMode)
}

(* A file system in which the pinned paths of the templates are taken *)
PinnedFiles ==
    [q \in {SrcPath("a"), resolve_path("fixed", "x", 1), resolve_path("fixed", "o", 1)} |->
        IF q = SrcPath("a") THEN InitialFiles[q] ELSE File("P", TempBits)]

InitPrep ==
    /\ runnable \in PrepTemplates
    /\ stream \in Streams \ {<<>>}
    /\ max_processes = 1
    /\ fs \in {InitialFiles, PinnedFiles}
    /\ future = [i \in 1..Len(stream) |-> NoFuture]
    /\ frame = [i \in 1..Len(stream) |-> IdleFrame]
    /\ exec_handlers = <<>>
    /\ invoked = <<>>
    /\ consumer = [pc |-> "init", pos |-> 1, received |-> <<>>, exc |-> NoExc]
    /\ condor = NoCluster
    /\ call = NoCall
    /\ job = [pc |-> "none", processor |-> "None", collector |-> "None",
              kind |-> "Noop", exc |-> NoExc]

SpecPrep == InitPrep /\ [][Next]_vars

----------------------------------------------------------------------------
(* Job._run: with self._processor as processor, self._collector as collector:
       collector.collect(processor.process(self._runnable, self._generator)) *)

(* Processor.__enter__, which Subprocessor inherits: the body is `pass` *)
Processor_enter == "None"

(* Collector.__enter__ is `pass` as well; Multi, Demux, Convert and
   Concatenate override it and return the collector *)
Collector_enter(kind) == IF kind = "Noop" THEN "None" ELSE "self"

InitJob ==
    /\ InitCommon
    /\ \E kind \in {"Noop", "Multi"} :
         job = [pc |-> "start", processor |-> "None", collector |-> "None",
                kind |-> kind, exc |-> NoExc]

(* The with statement binds the values returned by the two __enter__ calls *)
Job_enter ==
    /\ job.pc = "start"
    /\ job' = [job EXCEPT !.pc = "body", !.processor = Processor_enter,
                          !.collector = Collector_enter(job.kind)]
    /\ UNCHANGED <<call, condor, runnable, stream, max_processes, fs, future, frame, exec_handlers,
                   invoked, consumer>>

(* The body: collector.collect and processor.process are looked up on the
   bound values; on None the lookup raises AttributeError *)
Job_collect ==
    /\ job.pc = "body"
    /\ IF job.collector = "None" \/ job.processor = "None"
       THEN /\ job' = [job EXCEPT !.pc = "exiting", !.exc = Exc("AttributeError")]
            /\ UNCHANGED <<future, consumer>>
       ELSE /\ job' = [job EXCEPT !.pc = "collecting"]
            /\ future' = pool_map(future)
            /\ consumer' = [consumer EXCEPT !.pc = "iterating"]
    /\ UNCHANGED <<call, condor, runnable, stream, max_processes, fs, frame, exec_handlers, invoked>>

(* Leaving the with statement: Collector.__exit__, then Subprocessor.__exit__ *)
Job_exit ==
    /\ job.pc = "exiting"
    /\ pool_idle
    /\ LET h == HandlersList_call(exec_handlers, fs, invoked)
       IN /\ fs' = h.fs
          /\ invoked' = h.invoked
          /\ exec_handlers' = IF h.exc = NoExc THEN <<>> ELSE exec_handlers
          /\ job' = [job EXCEPT !.pc = "done",
                                !.exc = IF h.exc # NoExc THEN h.exc ELSE @]
    /\ UNCHANGED <<call, condor, runnable, stream, max_processes, future, frame, consumer>>

NextJob == Job_enter \/ Job_collect \/ Job_exit

SpecJob == InitJob /\ [][NextJob]_vars

----------------------------------------------------------------------------
(* The remote executor: HTCondor._run_job submits one cluster with one proc
   per parameter set, polls the queue of the scheduler until the status
   counts of a snapshot say that all is completed, and assembles the results
   from that snapshot *)

(* _Status *)
Statuses ==
    {"UNEXPANDED", "IDLE", "RUNNING", "REMOVED", "COMPLETED", "HELD", "SUBMISSION_ERR"}

(* The job ad of a proc in the queue of the scheduler. ExitCode and
   ExitSignal are -1 and ExitBySignal is "absent" while the ad does not carry
   them; a boolean attribute is delivered as the boolean ("True", "False") or
   as its text ("true") *)
ClassAd(proc_id, status) ==
    [ProcId |-> proc_id, JobStatus |-> status, ExitCode |-> -1,
     ExitBySignal |-> "absent", ExitSignal |-> -1]

SignalTexts == {"True", "true"}
ExitSignals == {9}

(* _JobState.from_class_ad *)
JobState_from_class_ad(class_ad) ==
    [proc_id |-> class_ad.ProcId,
     job_status |-> class_ad.JobStatus,
     exit_code |-> class_ad.ExitCode,
     exit_by_signal |->
        (IF class_ad.ExitBySignal = "absent" THEN "false" ELSE class_ad.ExitBySignal) = "true",
     exit_signal |-> class_ad.ExitSignal]

(* _StatusCounts.add_jobs on fresh counts, and _StatusCounts.total *)
StatusCounts_add_jobs(job_states) ==
    [st \in Statuses |->
        Cardinality({p \in DOMAIN job_states : job_states[p].job_status = st})]

StatusCounts_total(counts) ==
    counts["UNEXPANDED"] + counts["IDLE"] + counts["RUNNING"] + counts["REMOVED"]
    + counts["COMPLETED"] + counts["HELD"] + counts["SUBMISSION_ERR"]

(* The submission record carries leave_in_queue = 'JobStatus != 3': a proc
   that is completed stays in the queue, a removed one leaves it *)
leave_in_queue(class_ad) == class_ad.JobStatus # "REMOVED"

(* Job.__init__ and Job.Fluid: the job definition around a process. The
   extra commands are a mapping from command names to texts; HTCondor.process
   wraps a Process into Job.Fluid().process(runnable).build() *)
Job(transfer_files, commands) == [transfer_files |-> transfer_files, commands |-> commands]

DefaultJob == Job(TRUE, <<>>)

(* os.path.basename: the kind of a path is the directory it lies in *)
basename(path) == [name |-> path.name, n |-> path.n]

(* _make_temp_link: a symlink with a fresh random name in the temporary
   directory; the placeholder of a pinned output file is made by mkstemp *)
make_temp_link(i, k) == [kind |-> "tmp", name |-> "link", n |-> 10 * i + k]

mkstemp_placeholder(i, k) == [kind |-> "tmp", name |-> "placeholder", n |-> 10 * i + k]

Symlink(orig) == [content |-> "", mode |-> {}, link |-> orig]

CallbackUnlink(path) == [op |-> "unlink", path |-> path, mode |-> {}]

(* _JobClusterGenerator._prepare_std_files: stdin, stdout and stderr *)
prepare_std_file(res, i, k, f) ==
    CASE res.slot = "stdin" -> prepare_input_file(res.spec, "stdin", i, k, f)
      [] res.slot = "stdout" -> prepare_output_file(res.spec, "stdout", i, k, f)
      [] OTHER -> prepare_output_file(res.spec, "stderr", i, k, f)

(* _prepare_input_file_for_transfer: a file that is not temporary is handed
   to the transfer mechanism through a fresh symlink, which the stack of the
   generator unlinks *)
prepare_input_file_for_transfer_unregistered(spec, i, k, f) ==
    LET r == prepare_input_file(spec, "", i, k, f)
    IN IF r.exc # NoExc \/ r.descriptor.temporary THEN r
       ELSE [r EXCEPT !.fs = put(@, make_temp_link(i, k), Symlink(r.descriptor.open_path)),
                      !.descriptor.process_path = make_temp_link(i, k)]

prepare_input_file_for_transfer(spec, i, k, f) ==
    LET r == prepare_input_file(spec, "", i, k, f)
    IN IF r.exc # NoExc \/ r.descriptor.temporary THEN r
       ELSE [r EXCEPT !.fs = put(@, make_temp_link(i, k), Symlink(r.descriptor.open_path)),
                      !.exit_handlers = @ \o <<CallbackUnlink(make_temp_link(i, k))>>,
                      !.descriptor.process_path = make_temp_link(i, k)]

(* _prepare_output_file_for_transfer: a file that is not temporary gets an
   empty placeholder file in the temporary directory *)
prepare_output_file_for_transfer(spec, i, k, f) ==
    LET r == prepare_output_file(spec, "", i, k, f)
    IN IF r.exc # NoExc \/ r.descriptor.temporary THEN r
       ELSE [r EXCEPT !.fs = put(@, mkstemp_placeholder(i, k), File("", TempBits)),
                      !.exit_handlers = @ \o <<CallbackUnlink(mkstemp_placeholder(i, k))>>,
                      !.descriptor.process_path = mkstemp_placeholder(i, k)]

(* One step of _prepare_all_files_for_transfer or of
   _prepare_all_files_for_no_transfer *)
prepare_file(transfer, res, i, k, f) ==
    CASE res.slot \in {"stdin", "stdout", "stderr"} -> prepare_std_file(res, i, k, f)
      [] res.slot = "in" ->
            IF transfer THEN prepare_input_file_for_transfer(res.spec, i, k, f)
            ELSE prepare_input_file(res.spec, "", i, k, f)
      [] OTHER ->
            IF transfer THEN prepare_output_file_for_transfer(res.spec, i, k, f)
            ELSE prepare_output_file(res.spec, "", i, k, f)

(* The files of one proc: the standard streams, then the input files, then
   the output files; the first preparation that raises ends it *)
RECURSIVE prepare_all_files(_, _, _, _, _)
prepare_all_files(transfer, resources, i, k, acc) ==
    IF k > Len(resources) \/ acc.exc # NoExc THEN acc
    ELSE LET r == prepare_file(transfer, resources[k], i, k, acc.fs)
         IN prepare_all_files(transfer, resources, i, k + 1,
                [acc EXCEPT !.exc = r.exc,
                            !.fs = r.fs,
                            !.stack = @ \o r.exit_handlers,
                            !.cleanup_handlers = @ \o r.cleanup_handlers,
                            !.descriptors = IF r.exc = NoExc THEN Append(@, r.descriptor)
                                            ELSE @])

(* The descriptors of a proc that were prepared for the resources of a slot *)
BySlot(resources, descriptors, slot) ==
    LET idx == {k \in 1..Len(descriptors) : resources[k].slot = slot}
    IN [j \in 1..Cardinality(idx) |->
            descriptors[CHOOSE k \in idx : Cardinality({l \in idx : l < k}) = j - 1]]

OptBySlot(resources, descriptors, slot) ==
    IF BySlot(resources, descriptors, slot) = <<>> THEN NoAccessor
    ELSE accessor(BySlot(resources, descriptors, slot)[1])

(* _JobClusterGenerator._ProcessInfo.result *)
ProcessInfo_result(info, exit_code) ==
    LET resources == Resources(with_params(runnable, info.params))
        ins == BySlot(resources, info.descriptors, "in")
        outs == BySlot(resources, info.descriptors, "out")
    IN Result(exit_code,
              OptBySlot(resources, info.descriptors, "stdin"),
              OptBySlot(resources, info.descriptors, "stdout"),
              OptBySlot(resources, info.descriptors, "stderr"),
              [j \in 1..Len(ins) |-> accessor(ins[j])],
              [j \in 1..Len(outs) |-> accessor(outs[j])])

(* The dict comprehensions of the generator: of two files with the same key
   the later one stays *)
Last(files, key(_), k) == CHOOSE j \in 1..Len(files) :
    /\ key(files[j]) = k
    /\ \A l \in (j + 1)..Len(files) : key(files[l]) # k

(* The synthetic parameters __file_NAME, by NAME *)
file_params(transfer, files) ==
    LET name(file) == file.name
    IN [nm \in {files[j].name : j \in 1..Len(files)} |->
            IF transfer THEN basename(files[Last(files, name, nm)].process_path)
            ELSE files[Last(files, name, nm)].process_path]

(* What _prepare_std_files puts into the record *)
std_data(resources, descriptors) ==
    LET stdin == BySlot(resources, descriptors, "stdin")
        stdout == BySlot(resources, descriptors, "stdout")
        stderr == BySlot(resources, descriptors, "stderr")
    IN (IF stdin = <<>> THEN <<>> ELSE [input |-> stdin[1].open_path])
       @@ (IF stdout = <<>> THEN <<>> ELSE [output |-> stdout[1].open_path])
       @@ (IF stderr = <<>> THEN <<>> ELSE [error |-> stderr[1].open_path])

(* What _prepare_all_files_for_transfer puts into the record *)
transfer_data(ins, outs) ==
    LET base(file) == basename(file.process_path)
    IN [should_transfer_files |-> "YES", transfer_executable |-> "True",
        transfer_input |-> "True", transfer_output |-> "True", transfer_error |-> "True",
        transfer_input_files |-> [j \in 1..Len(ins) |-> ins[j].process_path],
        transfer_output_files |-> [j \in 1..Len(outs) |-> base(outs[j])],
        transfer_output_remaps |->
            [b \in {base(outs[j]) : j \in 1..Len(outs)} |-> outs[Last(outs, base, b)].open_path],
        when_to_transfer_output |-> "ON_EXIT"]

(* What _prepare_all_files_for_no_transfer puts into the record *)
no_transfer_data ==
    [should_transfer_files |-> "NO", transfer_executable |-> "False",
     transfer_input |-> "False", transfer_output |-> "False", transfer_error |-> "False"]

(* The record __iter__ yields in place of one whose preparation raised *)
Placeholder == [executable |-> "/bin/ls"]

(* __iter__: the record of one proc. The command line of the templates names
   every file, P('__file_NAME'), the input files first; arguments holds the
   resolved list, which _args_to_str encodes. What data.update puts in later
   replaces what is there: the extra commands of the job come last *)
submission_record_unguarded(jb, resources, descriptors) ==
    LET ins == BySlot(resources, descriptors, "in")
        outs == BySlot(resources, descriptors, "out")
        params == file_params(jb.transfer_files, ins \o outs)
    IN jb.commands
       @@ [universe |-> "vanilla", executable |-> "cmd",
           arguments |-> [j \in 1..Len(ins \o outs) |-> params[(ins \o outs)[j].name]]]
       @@ (IF jb.transfer_files THEN transfer_data(ins, outs) ELSE no_transfer_data)
       @@ std_data(resources, descriptors)

submission_record(jb, resources, descriptors) ==
    LET ins == BySlot(resources, descriptors, "in")
        outs == BySlot(resources, descriptors, "out")
        params == file_params(jb.transfer_files, ins \o outs)
    IN jb.commands
       @@ [universe |-> "vanilla", executable |-> "cmd",
           arguments |-> [j \in 1..Len(ins \o outs) |-> params[(ins \o outs)[j].name]],
           leave_in_queue |-> "JobStatus != 3"]
       @@ (IF jb.transfer_files THEN transfer_data(ins, outs) ELSE no_transfer_data)
       @@ std_data(resources, descriptors)

(* _run_job: the loop over the procs after polling. job_states[proc_id]
   raises KeyError for a proc the last snapshot does not hold *)
RECURSIVE assemble_from_last(_, _, _, _)
assemble_from_last(proc_id, cl, f, acc) ==
    IF proc_id >= Len(cl.processes) THEN acc
    ELSE IF proc_id \notin DOMAIN cl.job_states THEN [acc EXCEPT !.exc = Exc("KeyError")]
    ELSE LET job_state == cl.job_states[proc_id]
             info == cl.processes[Len(cl.processes) - proc_id]
             result == ProcessInfo_result(info, job_state.exit_code)
             c == check_for_failure(with_params(runnable, info.params).failure_mode, result, f)
         IN IF job_state.exit_by_signal
            THEN [acc EXCEPT !.exc = ExcCode("_ProcessFailedError", job_state.exit_signal)]
            ELSE IF job_state.exit_code = -1 THEN [acc EXCEPT !.exc = Exc("Exception")]
            ELSE IF c.exc # NoExc
            THEN [acc EXCEPT !.exc = c.exc, !.evals = @ + Len(c.evals)]
            ELSE assemble_from_last(proc_id + 1, cl, f,
                    [acc EXCEPT !.evals = @ + Len(c.evals),
                                !.results = Append(@, [params |-> info.params,
                                                       result |-> result])])

RECURSIVE assemble(_, _, _, _)
assemble(proc_id, cl, f, acc) ==
    IF proc_id >= Len(cl.processes) THEN acc
    ELSE IF proc_id \notin DOMAIN cl.job_states THEN [acc EXCEPT !.exc = Exc("KeyError")]
    ELSE LET job_state == cl.job_states[proc_id]
             info == cl.processes[proc_id + 1]
             result == ProcessInfo_result(info, job_state.exit_code)
             c == check_for_failure(with_params(runnable, info.params).failure_mode, result, f)
         IN IF job_state.exit_by_signal
            THEN [acc EXCEPT !.exc = ExcCode("_ProcessFailedError", job_state.exit_signal)]
            ELSE IF job_state.exit_code = -1 THEN [acc EXCEPT !.exc = Exc("Exception")]
            ELSE IF c.exc # NoExc
            THEN [acc EXCEPT !.exc = c.exc, !.evals = @ + Len(c.evals)]
            ELSE assemble(proc_id + 1, cl, f,
                    [acc EXCEPT !.evals = @ + Len(c.evals),
                                !.results = Append(@, [params |-> info.params,
                                                       result |-> result])])

CondorTemplates == {
    \* nothing captured, the default failure mode
    Process(NoStdin, NoCapture, NoCapture, <<>>, <<>>, DefaultFailureMode),
    \* stderr captured and interpreted, one literal input file
    Process(NoStdin, NoCapture, Capture, <<Literal("a")>>, <<>>,
            FailureMode("ge2", "nonempty", "none")),
    \* a literal input whose text cannot be encoded, after a good one
    Process(NoStdin, NoCapture, NoCapture,
            <<Literal("a"), InputFile("b", WriteableFromStr("S", FALSE), "none", TRUE, FALSE)>>,
            <<>>, DefaultFailureMode)
}

CondorExitCodes == {0, 13}

InitCondor ==
    /\ runnable \in CondorTemplates
    /\ stream \in Streams \ {<<>>}
    /\ max_processes = 1
    /\ fs = InitialFiles
    /\ future = [i \in 1..Len(stream) |-> NoFuture]
    /\ frame = [i \in 1..Len(stream) |-> IdleFrame]
    /\ exec_handlers = <<>>
    /\ invoked = <<>>
    /\ consumer = [pc |-> "init", pos |-> 1, received |-> <<>>, exc |-> NoExc]
    /\ job = [pc |-> "none", processor |-> "None", collector |-> "None",
              kind |-> "Noop", exc |-> NoExc]
    /\ condor = [NoCluster EXCEPT !.pc = "init"]
    /\ call = NoCall

(* Leaving the with-block of _run_job. The exit stack calls back in reverse
   order of registration: first the removal of the cluster, if the cluster
   was submitted, which registers it; then the generator is left, which
   unwinds its own stack and, when an exception is passing, calls the
   cleanup handlers. schedd.act is a call to the scheduler and may raise
   (act_ok is FALSE); its exception then is the one that is passing *)
JobAction_Remove(queue) == [p \in DOMAIN queue |-> [queue[p] EXCEPT !.JobStatus = "REMOVED"]]

run_job_exit_on_success(cl, submitted, act_ok, f, exc, results) ==
    LET e == ExitStack_exit(cl.stack, f, exc)
        c == CallbackOnException_exit(cl.cleanup_handlers, e.fs, invoked, e.exc)
    IN /\ fs' = c.fs
       /\ invoked' = c.invoked
       /\ condor' = [cl EXCEPT
             !.pc = IF c.exc = NoExc THEN "returned" ELSE "raised",
             !.exc = c.exc,
             !.cause = exc,
             !.results = IF c.exc = NoExc THEN results ELSE <<>>,
             !.removals = IF submitted /\ exc = NoExc THEN @ + 1 ELSE @,
             !.queue = IF submitted /\ exc = NoExc THEN JobAction_Remove(@) ELSE @]

run_job_exit(cl, submitted, act_ok, f, exc, results) ==
    LET removed == IF submitted /\ ~act_ok THEN Exc("RuntimeError") ELSE exc
        e == ExitStack_exit(cl.stack, f, removed)
        c == CallbackOnException_exit(cl.cleanup_handlers, e.fs, invoked, e.exc)
    IN /\ fs' = c.fs
       /\ invoked' = c.invoked
       /\ condor' = [cl EXCEPT
             !.pc = IF c.exc = NoExc THEN "returned" ELSE "raised",
             !.exc = c.exc,
             !.cause = exc,
             !.results = IF c.exc = NoExc THEN results ELSE <<>>,
             !.removals = IF submitted THEN @ + 1 ELSE @,
             !.queue = IF submitted /\ act_ok THEN JobAction_Remove(@) ELSE @]

(* HTCondor.process calls _run_job: the generator is entered and handed to
   Submit.queue_with_itemdata inside a transaction *)
HTCondor_process ==
    /\ condor.pc = "init"
    /\ condor' = [condor EXCEPT !.pc = "submitting"]
    /\ UNCHANGED <<call, runnable, stream, max_processes, fs, future, frame, exec_handlers,
                   invoked, consumer, job>>

(* _JobClusterGenerator.__iter__, one round of its loop: the files of the
   next parameter set are prepared and its record is yielded; when the
   preparation raises, a placeholder record is yielded instead *)
JobClusterGenerator_round(placeholder) ==
    /\ condor.pc = "submitting"
    /\ condor.yielded < Len(stream)
    /\ LET i == condor.yielded + 1
           resources == Resources(with_params(runnable, stream[i]))
           r == prepare_all_files(condor.job.transfer_files, resources, i, 1,
                    [exc |-> NoExc, fs |-> fs, stack |-> condor.stack,
                     cleanup_handlers |-> condor.cleanup_handlers, descriptors |-> <<>>])
       IN /\ fs' = r.fs
          /\ condor' = [condor EXCEPT
                !.yielded = IF r.exc = NoExc \/ placeholder THEN @ + 1 ELSE @,
                !.records = IF r.exc = NoExc
                            THEN Append(@, submission_record(condor.job, resources,
                                                             r.descriptors))
                            ELSE IF placeholder THEN Append(@, Placeholder) ELSE @,
                !.stack = r.stack,
                !.cleanup_handlers = r.cleanup_handlers,
                !.exc = r.exc,
                !.pc = IF r.exc = NoExc THEN "submitting" ELSE "placeholder",
                !.processes = IF r.exc = NoExc
                              THEN Append(@, [params |-> stream[i],
                                              descriptors |-> r.descriptors])
                              ELSE @]
    /\ UNCHANGED <<call, runnable, stream, max_processes, future, frame, exec_handlers,
                   invoked, consumer, job>>

JobClusterGenerator_next_raising == JobClusterGenerator_round(FALSE)

JobClusterGenerator_next == JobClusterGenerator_round(TRUE)

(* The submission asks for the record after the placeholder: the exception of
   the preparation is raised and leaves _run_job *)
JobClusterGenerator_raise ==
    /\ condor.pc = "placeholder"
    /\ run_job_exit(condor, FALSE, TRUE, fs, condor.exc, <<>>)
    /\ UNCHANGED <<call, runnable, stream, max_processes, future, frame, exec_handlers,
                   consumer, job>>

(* The generator is exhausted: the cluster is in the queue, one proc per
   record, and its removal is registered with the exit stack *)
Submit_queue ==
    /\ condor.pc = "submitting"
    /\ condor.yielded = Len(stream)
    /\ condor' = [condor EXCEPT
          !.pc = "polling",
          !.queue = [p \in 0..(Len(condor.processes) - 1) |-> ClassAd(p, "IDLE")]]
    /\ UNCHANGED <<call, runnable, stream, max_processes, fs, future, frame, exec_handlers,
                   invoked, consumer, job>>

(* The scheduler, while the executor polls *)
Schedd_set(p, class_ad) ==
    /\ condor.pc = "polling"
    /\ p \in DOMAIN condor.queue
    /\ condor' = [condor EXCEPT !.queue[p] = class_ad]

Schedd_run(p) ==
    /\ Schedd_set(p, [condor.queue[p] EXCEPT !.JobStatus = "RUNNING"])
    /\ condor.queue[p].JobStatus = "IDLE"
    /\ UNCHANGED <<call, runnable, stream, max_processes, fs, future, frame, exec_handlers,
                   invoked, consumer, job>>

Schedd_hold(p) ==
    /\ Schedd_set(p, [condor.queue[p] EXCEPT !.JobStatus = "HELD"])
    /\ condor.queue[p].JobStatus \in {"IDLE", "RUNNING"}
    /\ UNCHANGED <<call, runnable, stream, max_processes, fs, future, frame, exec_handlers,
                   invoked, consumer, job>>

Schedd_release(p) ==
    /\ Schedd_set(p, [condor.queue[p] EXCEPT !.JobStatus = "IDLE"])
    /\ condor.queue[p].JobStatus = "HELD"
    /\ UNCHANGED <<call, runnable, stream, max_processes, fs, future, frame, exec_handlers,
                   invoked, consumer, job>>

(* The proc ends with an exit code or by a signal; what it wrote to stderr is
   in the file the submission record names, and the output files it has
   written are at their open_path: there they were written when files are
   not transferred, and there the remaps put them when they are *)
Schedd_complete(p) ==
    /\ condor.pc = "polling"
    /\ p \in DOMAIN condor.queue
    /\ condor.queue[p].JobStatus = "RUNNING"
    /\ LET info == condor.processes[p + 1]
           stderr == BySlot(Resources(with_params(runnable, info.params)),
                            info.descriptors, "stderr")
           outs == BySlot(Resources(with_params(runnable, info.params)),
                          info.descriptors, "out")
       IN /\ \E code \in CondorExitCodes \cup {-1} :
             \E text \in IF code = -1 THEN SignalTexts ELSE {"False"} :
             \E sig \in IF code = -1 THEN ExitSignals ELSE {-1} :
                condor' = [condor EXCEPT !.queue[p] =
                    [@ EXCEPT !.JobStatus = "COMPLETED", !.ExitCode = code,
                              !.ExitBySignal = text, !.ExitSignal = sig]]
          /\ \E err \in IF stderr = <<>> THEN {""} ELSE {"", "E"} :
             \E creates \in IF outs = <<>> THEN {FALSE} ELSE BOOLEAN :
                fs' = write_outputs(
                        IF stderr = <<>> \/ ~exists(fs, stderr[1].open_path) THEN fs
                        ELSE write_file(fs, stderr[1].open_path, err),
                        IF creates
                        THEN [j \in 1..Len(outs) |-> [process_path |-> outs[j].open_path]]
                        ELSE <<>>)
    /\ UNCHANGED <<call, runnable, stream, max_processes, future, frame, exec_handlers,
                   invoked, consumer, job>>

(* Somebody removes the proc (condor_rm, a removal policy) *)
Schedd_remove(p) ==
    /\ Schedd_set(p, [condor.queue[p] EXCEPT !.JobStatus = "REMOVED"])
    /\ condor.queue[p].JobStatus \in {"IDLE", "RUNNING", "HELD"}
    /\ UNCHANGED <<call, runnable, stream, max_processes, fs, future, frame, exec_handlers,
                   invoked, consumer, job>>

(* A proc that has ended leaves the queue unless leave_in_queue holds it *)
Schedd_leave(p) ==
    /\ condor.pc = "polling"
    /\ p \in DOMAIN condor.queue
    /\ condor.queue[p].JobStatus \in {"COMPLETED", "REMOVED"}
    /\ ~leave_in_queue(condor.queue[p])
    /\ condor' = [condor EXCEPT !.queue = [q \in DOMAIN @ \ {p} |-> @[q]]]
    /\ UNCHANGED <<call, runnable, stream, max_processes, fs, future, frame, exec_handlers,
                   invoked, consumer, job>>

(* The defaults of _get_poll_sleep_times *)
DefaultFirst == 10
DefaultMax == 600

(* The generator before its first value *)
poll_sleep_times(first, max) == [at |-> "start", cur |-> first, max |-> max, val |-> 0]

(* next() of the generator: it runs to the next yield. From the yield of the
   while loop it doubles cur and tests it; once the loop is left it is in
   itertools.repeat(max) *)
poll_sleep_next_uncapped(gen) ==
    LET cur == IF gen.at = "while" THEN gen.cur * 2 ELSE gen.cur
    IN IF gen.at # "repeat" /\ cur < gen.max
       THEN [gen EXCEPT !.at = "while", !.cur = cur, !.val = cur]
       ELSE [gen EXCEPT !.at = "repeat", !.cur = cur, !.val = cur]

poll_sleep_next(gen) ==
    LET cur == IF gen.at = "while" THEN gen.cur * 2 ELSE gen.cur
    IN IF gen.at # "repeat" /\ cur < gen.max
       THEN [gen EXCEPT !.at = "while", !.cur = cur, !.val = cur]
       ELSE [gen EXCEPT !.at = "repeat", !.cur = IF gen.at = "repeat" THEN @ ELSE cur,
                        !.val = gen.max]

(* The generator of the sleep times of the poll loop, where it is followed:
   the loop takes its next value and sleeps that long *)
poll_sleep(c) ==
    IF c.pc = "poll" THEN [c EXCEPT !.gen = poll_sleep_next(@)] ELSE c

(* One round of the poll loop: sleep, query the ads of the cluster, rebuild
   job_states and the counts, and leave the loop when completed = total *)
HTCondor_poll_with_timeout ==
    /\ condor.pc = "polling"
    /\ LET job_states == [p \in DOMAIN condor.queue |-> JobState_from_class_ad(condor.queue[p])]
           counts == StatusCounts_add_jobs(job_states)
       IN condor' = [condor EXCEPT
             !.job_states = job_states,
             !.polled = TRUE,
             !.pc = IF \/ counts["COMPLETED"] = StatusCounts_total(counts)
                       \/ (call.pc = "poll" /\ call.gen.at = "repeat")
                    THEN "assemble" ELSE "polling"]
    /\ call' = poll_sleep(call)
    /\ UNCHANGED <<runnable, stream, max_processes, fs, future, frame, exec_handlers,
                   invoked, consumer, job>>

HTCondor_poll ==
    /\ condor.pc = "polling"
    /\ LET job_states == [p \in DOMAIN condor.queue |-> JobState_from_class_ad(condor.queue[p])]
           counts == StatusCounts_add_jobs(job_states)
       IN condor' = [condor EXCEPT
             !.job_states = job_states,
             !.polled = TRUE,
             !.pc = IF counts["COMPLETED"] = StatusCounts_total(counts)
                    THEN "assemble" ELSE "polling"]
    /\ call' = poll_sleep(call)
    /\ UNCHANGED <<runnable, stream, max_processes, fs, future, frame, exec_handlers,
                   invoked, consumer, job>>

(* A round of the poll loop raises: the query does not reach the scheduler,
   or an ad carries a status _Status.from_value does not know *)
HTCondor_poll_raises ==
    /\ condor.pc = "polling"
    /\ \E act_ok \in BOOLEAN :
          run_job_exit(condor, TRUE, act_ok, fs, Exc("RuntimeError"), <<>>)
    /\ UNCHANGED <<call, runnable, stream, max_processes, future, frame, exec_handlers,
                   consumer, job>>

(* After the loop: the results are assembled, the handlers of the cluster
   are added to those of the executor, and the with-block is left *)
HTCondor_results ==
    /\ condor.pc = "assemble"
    /\ LET a == assemble(0, condor, fs, [exc |-> NoExc, results |-> <<>>, evals |-> 0])
       IN /\ \E act_ok \in BOOLEAN :
                run_job_exit([condor EXCEPT !.evals = a.evals], TRUE, act_ok, fs,
                             a.exc, a.results)
          /\ exec_handlers' = IF a.exc = NoExc THEN exec_handlers \o condor.cleanup_handlers
                              ELSE exec_handlers
    /\ UNCHANGED <<call, runnable, stream, max_processes, future, frame, consumer, job>>

(* HTCondor.__exit__ *)
HTCondor_exit ==
    /\ condor.pc \in {"returned", "raised"}
    /\ LET h == HandlersList_call(exec_handlers, fs, invoked)
       IN /\ fs' = h.fs
          /\ invoked' = h.invoked
          /\ exec_handlers' = IF h.exc = NoExc THEN <<>> ELSE exec_handlers
          /\ condor' = [condor EXCEPT !.pc = "exited",
                                      !.exc = IF h.exc # NoExc THEN h.exc ELSE @]
    /\ UNCHANGED <<call, runnable, stream, max_processes, future, frame, consumer, job>>

NextCondor ==
    \/ HTCondor_process
    \/ JobClusterGenerator_next
    \/ JobClusterGenerator_raise
    \/ Submit_queue
    \/ \E p \in DOMAIN condor.queue : Schedd_run(p)
    \/ \E p \in DOMAIN condor.queue : Schedd_hold(p)
    \/ \E p \in DOMAIN condor.queue : Schedd_release(p)
    \/ \E p \in DOMAIN condor.queue : Schedd_complete(p)
    \/ \E p \in DOMAIN condor.queue : Schedd_remove(p)
    \/ \E p \in DOMAIN condor.queue : Schedd_leave(p)
    \/ HTCondor_poll
    \/ HTCondor_poll_raises
    \/ HTCondor_results
    \/ HTCondor_exit

SpecCondor == InitCondor /\ [][NextCondor]_vars

(* The remote executor with one parameter set, over job definitions with and
   without file transfer and with extra commands, and over templates with
   output files and with an input file that is taken from an existing file *)
SubmitTemplates == {
    \* a literal input, two temporary outputs, the first left to the process
    Process(NoStdin, NoCapture, Capture, <<Literal("a")>>,
            <<TempOutput("o", FALSE), TempOutput("p", TRUE)>>, DefaultFailureMode),
    \* stdin connected, an input taken from an existing file, a literal one,
    \* a temporary output
    Process(Stdin(WriteableFromBytes("I"), "none"), NoCapture, NoCapture,
            <<InputFile("a", WriteableFromPath(SrcPath("a")), "none", TRUE, FALSE),
              Literal("b")>>,
            <<TempOutput("o", TRUE)>>, DefaultFailureMode),
    \* an input taken from an existing file, then one that cannot be encoded
    Process(NoStdin, NoCapture, NoCapture,
            <<InputFile("a", WriteableFromPath(SrcPath("a")), "none", TRUE, FALSE),
              InputFile("b", WriteableFromStr("S", FALSE), "none", TRUE, FALSE)>>,
            <<>>, DefaultFailureMode),
    \* an output pinned to a path formatted from the parameters
    Process(NoStdin, NoCapture, NoCapture, <<Literal("a")>>,
            <<OutputFile("o", "byparam", TRUE, TRUE, FALSE)>>, DefaultFailureMode)
}

SubmitCommands == {
    <<>>,
    [initialdir |-> "iwd", should_transfer_files |-> "YES"],
    [leave_in_queue |-> "False", initialdir |-> "iwd"]
}

InitSubmit ==
    /\ runnable \in SubmitTemplates
    /\ stream = <<1>>
    /\ max_processes = 1
    /\ fs = InitialFiles
    /\ future = [i \in 1..Len(stream) |-> NoFuture]
    /\ frame = [i \in 1..Len(stream) |-> IdleFrame]
    /\ exec_handlers = <<>>
    /\ invoked = <<>>
    /\ consumer = [pc |-> "init", pos |-> 1, received |-> <<>>, exc |-> NoExc]
    /\ job = [pc |-> "none", processor |-> "None", collector |-> "None",
              kind |-> "Noop", exc |-> NoExc]
    /\ \E transfer \in BOOLEAN, commands \in SubmitCommands :
          condor = [NoCluster EXCEPT !.pc = "init", !.job = Job(transfer, commands)]
    /\ call = NoCall

SpecSubmit == InitSubmit /\ [][NextCondor]_vars

(* The remote executor with its poll loop running: the thread of _run_job
   goes on, so a round of the loop that can be taken is taken eventually.
   The sleep times of the loop are followed, the scheduler remains free to do
   anything or nothing *)
InitLive ==
    /\ runnable \in {
            \* nothing captured, the default failure mode
            Process(NoStdin, NoCapture, NoCapture, <<>>, <<>>, DefaultFailureMode),
            \* an input whose text cannot be encoded: nothing is submitted
            Process(NoStdin, NoCapture, NoCapture,
                    <<InputFile("b", WriteableFromStr("S", FALSE), "none", TRUE, FALSE)>>,
                    <<>>, DefaultFailureMode)}
    /\ stream \in {<<1>>, <<1, 2>>}
    /\ max_processes = 1
    /\ fs = InitialFiles
    /\ future = [i \in 1..Len(stream) |-> NoFuture]
    /\ frame = [i \in 1..Len(stream) |-> IdleFrame]
    /\ exec_handlers = <<>>
    /\ invoked = <<>>
    /\ consumer = [pc |-> "init", pos |-> 1, received |-> <<>>, exc |-> NoExc]
    /\ job = [pc |-> "none", processor |-> "None", collector |-> "None",
              kind |-> "Noop", exc |-> NoExc]
    /\ condor = [NoCluster EXCEPT !.pc = "init"]
    /\ call = [pc |-> "poll", gen |-> poll_sleep_times(DefaultFirst, DefaultMax)]

SpecLive == InitLive /\ [][NextCondor]_vars /\ WF_vars(HTCondor_poll)

----------------------------------------------------------------------------
(* The template builder: Process.Fluid records one function per call and
   build() applies them in order to a fresh Process, which is then validated *)

MaxSteps == 3

FileNames == {"a", "b"}

(* Process.__init__, as far as validate() looks at it *)
Process_init ==
    [cmd |-> "", input_files |-> {}, output_files |-> {},
     stdout |-> FALSE, stderr |-> FALSE, failure_mode |-> DefaultFailureMode]

(* The calls of Process.Fluid that matter to validate() *)
FluidSteps ==
    [op : {"cmd"}, cmd : {"", "x"}]
    \cup [op : {"capture_stdout", "capture_stderr"}, capture : BOOLEAN]
    \cup [op : {"add_input_file", "remove_input_file",
                "add_output_file", "remove_output_file"}, name : FileNames]
    \cup [op : {"failure_mode"}, interpret_stderr : {"none", "nonempty"},
                                 interpret_stdout : {"none", "nonempty"}]

(* The function f(p) that a call of Process.Fluid records; del of a name
   that is not in the dict raises KeyError *)
Fluid_f(step, p) ==
    CASE step.op = "cmd" -> [exc |-> NoExc, p |-> [p EXCEPT !.cmd = step.cmd]]
      [] step.op = "capture_stdout" ->
            [exc |-> NoExc, p |-> [p EXCEPT !.stdout = step.capture]]
      [] step.op = "capture_stderr" ->
            [exc |-> NoExc, p |-> [p EXCEPT !.stderr = step.capture]]
      [] step.op = "add_input_file" ->
            [exc |-> NoExc, p |-> [p EXCEPT !.input_files = @ \cup {step.name}]]
      [] step.op = "add_output_file" ->
            [exc |-> NoExc, p |-> [p EXCEPT !.output_files = @ \cup {step.name}]]
      [] step.op = "remove_input_file" ->
            IF step.name \in p.input_files
            THEN [exc |-> NoExc, p |-> [p EXCEPT !.input_files = @ \ {step.name}]]
            ELSE [exc |-> Exc("KeyError"), p |-> p]
      [] step.op = "remove_output_file" ->
            IF step.name \in p.output_files
            THEN [exc |-> NoExc, p |-> [p EXCEPT !.output_files = @ \ {step.name}]]
            ELSE [exc |-> Exc("KeyError"), p |-> p]
      [] OTHER ->
            [exc |-> NoExc,
             p |-> [p EXCEPT !.failure_mode =
                        FailureMode("none", step.interpret_stderr, step.interpret_stdout)]]

(* Process.validate: the exception it raises, if any *)
validate(p) ==
    IF p.cmd = "" THEN Exc("Exception")
    ELSE IF p.input_files \cap p.output_files # {} THEN Exc("Exception")
    ELSE IF p.failure_mode.interpret_stderr # "none" /\ ~p.stderr THEN Exc("Exception")
    ELSE IF p.failure_mode.interpret_stdout # "none" /\ ~p.stdout THEN Exc("Exception")
    ELSE NoExc

(* Process.Fluid.build: the loop over the recorded functions from the k-th
   on, then validate() *)
RECURSIVE Fluid_build_from(_, _, _)
Fluid_build_from(stack, k, p) ==
    IF k > Len(stack) THEN [exc |-> validate(p), p |-> p]
    ELSE LET r == Fluid_f(stack[k], p)
         IN IF r.exc # NoExc THEN r ELSE Fluid_build_from(stack, k + 1, r.p)

InitFluid ==
    /\ runnable = Process(NoStdin, NoCapture, NoCapture, <<>>, <<>>, DefaultFailureMode)
    /\ stream = <<>>
    /\ max_processes = 1
    /\ fs = InitialFiles
    /\ future = <<>>
    /\ frame = <<>>
    /\ exec_handlers = <<>>
    /\ invoked = <<>>
    /\ consumer = [pc |-> "init", pos |-> 1, received |-> <<>>, exc |-> NoExc]
    /\ job = [pc |-> "none", processor |-> "None", collector |-> "None",
              kind |-> "Noop", exc |-> NoExc]
    /\ condor = NoCluster
    /\ call = [pc |-> "fluid", stack |-> <<>>, exc |-> NoExc, p |-> Process_init]

(* A call of a method of Process.Fluid: __add__ appends the function *)
Fluid_add(step) ==
    /\ call.pc = "fluid"
    /\ Len(call.stack) < MaxSteps
    /\ call' = [call EXCEPT !.stack = Append(@, step)]
    /\ UNCHANGED <<condor, runnable, stream, max_processes, fs, future, frame,
                   exec_handlers, invoked, consumer, job>>

Fluid_build ==
    /\ call.pc = "fluid"
    /\ LET r == Fluid_build_from(call.stack, 1, Process_init)
       IN call' = [call EXCEPT !.pc = "built", !.exc = r.exc, !.p = r.p]
    /\ UNCHANGED <<condor, runnable, stream, max_processes, fs, future, frame,
                   exec_handlers, invoked, consumer, job>>

NextFluid ==
    \/ \E step \in FluidSteps : Fluid_add(step)
    \/ Fluid_build

SpecFluid == InitFluid /\ [][NextFluid]_vars

----------------------------------------------------------------------------
(* The environment builder: every method of Environment.Fluid returns a new
   Fluid whose stack is the stack of the receiver with one more list of
   (name, value) items, value None standing for unset; build() replays the
   stack into the list of variables *)

MaxEnvSteps == 3

EnvNames == {"A", "B"}

EnvNone == [none |-> TRUE, text |-> ""]

EnvStr(text) == [none |-> FALSE, text |-> text]

(* os.environ.items() of the process that builds the template *)
environ == <<[key |-> "A", value |-> EnvStr("E")], [key |-> "B", value |-> EnvStr("F")]>>

(* filter(pred, it) on a list *)
RECURSIVE filter(_, _)
filter(pred(_), it) ==
    IF it = <<>> THEN <<>>
    ELSE (IF pred(Head(it)) THEN <<Head(it)>> ELSE <<>>) \o filter(pred, Tail(it))

(* Fluid.inherit: the items of environ that pass the blacklist or the
   whitelist; giving both raises *)
Environment_Fluid_inherit(blacklist, whitelist) ==
    LET not_black(item) == item.key \notin blacklist
        white(item) == item.key \in whitelist
        it1 == IF blacklist # {} THEN filter(not_black, environ) ELSE environ
        it2 == IF whitelist # {} THEN filter(white, it1) ELSE it1
    IN IF blacklist # {} /\ whitelist # {} THEN [exc |-> Exc("Exception"), other |-> <<>>]
       ELSE [exc |-> NoExc, other |-> it2]

(* Fluid.set with keyword arguments: variables.items() of a dict, given as
   the list of its items; Fluid.unset with names: every name with None *)
Environment_Fluid_set(variables) == [exc |-> NoExc, other |-> variables]

Environment_Fluid_unset(variables) ==
    [exc |-> NoExc,
     other |-> [j \in 1..Len(variables) |-> [key |-> variables[j], value |-> EnvNone]]]

(* Fluid.__add__ and _with_stack: the stack of the Fluid that is returned *)
Environment_Fluid_add(stack, other) == stack \o <<other>>

(* The keyword arguments set() is called with and the names unset() is
   called with *)
SetArguments ==
    {<<[key |-> n, value |-> EnvStr(v)]>> : n \in EnvNames, v \in {"1", "2"}}
    \cup {<<[key |-> "A", value |-> EnvStr("1")], [key |-> "B", value |-> EnvStr("2")]>>,
          <<[key |-> "B", value |-> EnvStr("1")], [key |-> "A", value |-> EnvStr("2")]>>}

UnsetArguments == {<<"A">>, <<"B">>, <<"A", "B">>, <<"A", "A">>}

(* Fluid.build: the inner loop over the items of one element of the stack,
   and the outer loop over the stack *)
RECURSIVE build_items_appending(_, _)
build_items_appending(variables, flat_variables) ==
    IF variables = <<>> THEN flat_variables
    ELSE LET key == Head(variables).key
             value == Head(variables).value
             other_key(var) == var.key # key
         IN build_items_appending(Tail(variables),
                IF value = EnvNone THEN filter(other_key, flat_variables)
                ELSE Append(flat_variables, [key |-> key, value |-> value.text]))

RECURSIVE build_items(_, _)
build_items(variables, flat_variables) ==
    IF variables = <<>> THEN flat_variables
    ELSE LET key == Head(variables).key
             value == Head(variables).value
             other_key(var) == var.key # key
         IN build_items(Tail(variables),
                IF value = EnvNone THEN filter(other_key, flat_variables)
                ELSE Append(filter(other_key, flat_variables),
                            [key |-> key, value |-> value.text]))

RECURSIVE Environment_Fluid_build(_, _)
Environment_Fluid_build(stack, flat_variables) ==
    IF stack = <<>> THEN flat_variables
    ELSE Environment_Fluid_build(Tail(stack), build_items(Head(stack), flat_variables))

(* The Fluid objects made so far, each by its stack: the first is
   Environment.Fluid(), every method is called on the one made last *)
InitEnv ==
    /\ runnable = Process(NoStdin, NoCapture, NoCapture, <<>>, <<>>, DefaultFailureMode)
    /\ stream = <<>>
    /\ max_processes = 1
    /\ fs = InitialFiles
    /\ future = <<>>
    /\ frame = <<>>
    /\ exec_handlers = <<>>
    /\ invoked = <<>>
    /\ consumer = [pc |-> "init", pos |-> 1, received |-> <<>>, exc |-> NoExc]
    /\ job = [pc |-> "none", processor |-> "None", collector |-> "None",
              kind |-> "Noop", exc |-> NoExc]
    /\ condor = NoCluster
    /\ call = [pc |-> "env", fluids |-> <<(<<>>)>>, exc |-> NoExc, variables |-> <<>>]

(* A method of the Fluid made last has been called and has returned or
   raised *)
Env_record(r) ==
    /\ call.pc = "env"
    /\ Len(call.fluids) <= MaxEnvSteps
    /\ call' = [call EXCEPT
          !.exc = r.exc,
          !.fluids = IF r.exc # NoExc THEN @
                     ELSE Append(@, Environment_Fluid_add(@[Len(@)], r.other))]
    /\ UNCHANGED <<condor, runnable, stream, max_processes, fs, future, frame,
                   exec_handlers, invoked, consumer, job>>

Env_set == \E variables \in SetArguments : Env_record(Environment_Fluid_set(variables))

Env_unset == \E variables \in UnsetArguments : Env_record(Environment_Fluid_unset(variables))

Env_inherit ==
    \E blacklist \in SUBSET EnvNames, whitelist \in SUBSET EnvNames :
        Env_record(Environment_Fluid_inherit(blacklist, whitelist))

Env_build ==
    /\ call.pc = "env"
    /\ call' = [call EXCEPT
          !.pc = "built", !.exc = NoExc,
          !.variables = Environment_Fluid_build(call.fluids[Len(call.fluids)], <<>>)]
    /\ UNCHANGED <<condor, runnable, stream, max_processes, fs, future, frame,
                   exec_handlers, invoked, consumer, job>>

NextEnv == Env_set \/ Env_unset \/ Env_inherit \/ Env_build

SpecEnv == InitEnv /\ [][NextEnv]_vars

----------------------------------------------------------------------------
(* The encoders of the submission record. A str is the sequence of its
   characters; a dict is the sequence of its items in insertion order *)

MaxChars == 5

DQ == "\""
SQ == "'"
TAB == "\t"

Alphabet == {"a", " ", TAB, SQ, DQ, "=", ";"}

(* The argument lists: each argument is followed by "|" in the flat form, so
   that the size of a list is the number of its characters and arguments *)
Flat == UNION {[1..n -> Alphabet \cup {"|"}] : n \in 0..MaxChars}

Ends(raw) == {i \in 1..Len(raw) : raw[i] = "|"}

Unflatten(raw) ==
    [j \in 1..Cardinality(Ends(raw)) |->
        LET e == CHOOSE i \in Ends(raw) : Cardinality({l \in Ends(raw) : l < i}) = j - 1
            b == IF j = 1 THEN 0
                 ELSE CHOOSE i \in Ends(raw) : Cardinality({l \in Ends(raw) : l < i}) = j - 2
        IN SubSeq(raw, b + 1, e - 1)]

ArgLists == {Unflatten(raw) : raw \in {r \in Flat : r = <<>> \/ r[Len(r)] = "|"}}

(* The dict with the items (tokens[1], tokens[2]), (tokens[3], tokens[4]), ... *)
Items(tokens) ==
    [j \in 1..(Len(tokens) \div 2) |-> [key |-> tokens[2 * j - 1], value |-> tokens[2 * j]]]

IsDict(tokens) ==
    /\ Len(tokens) % 2 = 0
    /\ \A j, l \in 1..(Len(tokens) \div 2) : j # l => tokens[2 * j - 1] # tokens[2 * l - 1]

RECURSIVE Concat(_)
Concat(parts) == IF parts = <<>> THEN <<>> ELSE Head(parts) \o Concat(Tail(parts))

(* str.replace of one character, and sep.join(parts) *)
str_replace(str, old, new) ==
    Concat([i \in 1..Len(str) |-> IF str[i] = old THEN new ELSE <<str[i]>>])

str_join(sep, parts) ==
    Concat([i \in 1..Len(parts) |-> IF i = 1 THEN parts[i] ELSE sep \o parts[i]])

contains_any(str, what) == \E i \in 1..Len(str) : str[i] \in what

(* _quote *)
quote_unwrapped_tab(token) ==
    LET quote_wrap == contains_any(token, {" ", SQ})
        quoted == str_replace(str_replace(token, SQ, <<SQ, SQ>>), DQ, <<DQ, DQ>>)
    IN IF quote_wrap THEN <<SQ>> \o quoted \o <<SQ>>
       ELSE IF Len(token) = 0 THEN <<SQ>> \o token \o <<SQ>>
       ELSE quoted

quote(token) ==
    LET quote_wrap == contains_any(token, {" ", TAB, SQ})
        quoted == str_replace(str_replace(token, SQ, <<SQ, SQ>>), DQ, <<DQ, DQ>>)
    IN IF quote_wrap THEN <<SQ>> \o quoted \o <<SQ>>
       ELSE IF Len(token) = 0 THEN <<SQ>> \o token \o <<SQ>>
       ELSE quoted

(* _args_to_str *)
args_to_str(args) ==
    <<DQ>> \o str_join(<<" ">>, [i \in 1..Len(args) |-> quote(args[i])]) \o <<DQ>>

(* _environment_to_str *)
environment_to_str(environment) ==
    <<DQ>>
    \o str_join(<<" ">>, [i \in 1..Len(environment) |->
            environment[i].key \o <<"=">> \o quote(environment[i].value)])
    \o <<DQ>>

(* _file_remaps_to_str *)
esc_k(str) == str_replace(str, "=", <<"\\", "=">>)

esc_v_plain(str) == str

esc_v(str) == str_replace(str, ";", <<"\\", ";">>)

file_remaps_to_str(remaps) ==
    <<DQ>>
    \o str_join(<<";">>, [i \in 1..Len(remaps) |->
            esc_k(remaps[i].key) \o <<"=">> \o esc_v(remaps[i].value)])
    \o <<DQ>>

InitEncode ==
    /\ runnable = Process(NoStdin, NoCapture, NoCapture, <<>>, <<>>, DefaultFailureMode)
    /\ stream = <<>>
    /\ max_processes = 1
    /\ fs = InitialFiles
    /\ future = <<>>
    /\ frame = <<>>
    /\ exec_handlers = <<>>
    /\ invoked = <<>>
    /\ consumer = [pc |-> "init", pos |-> 1, received |-> <<>>, exc |-> NoExc]
    /\ job = [pc |-> "none", processor |-> "None", collector |-> "None",
              kind |-> "Noop", exc |-> NoExc]
    /\ condor = NoCluster
    /\ \E tokens \in ArgLists : call = [pc |-> "input", tokens |-> tokens, str |-> <<>>]

(* _JobClusterGenerator.__iter__ encodes the arguments of the process *)
Encode_arguments ==
    /\ call.pc = "input"
    /\ call' = [call EXCEPT !.pc = "arguments", !.str = args_to_str(call.tokens)]
    /\ UNCHANGED <<condor, runnable, stream, max_processes, fs, future, frame,
                   exec_handlers, invoked, consumer, job>>

(* ... and its environment *)
Encode_environment ==
    /\ call.pc = "input"
    /\ IsDict(call.tokens)
    /\ call' = [call EXCEPT !.pc = "environment",
                            !.str = environment_to_str(Items(call.tokens))]
    /\ UNCHANGED <<condor, runnable, stream, max_processes, fs, future, frame,
                   exec_handlers, invoked, consumer, job>>

(* _prepare_all_files_for_transfer encodes the remaps of the output files *)
Encode_remaps ==
    /\ call.pc = "input"
    /\ IsDict(call.tokens)
    /\ call' = [call EXCEPT !.pc = "remaps",
                            !.str = file_remaps_to_str(Items(call.tokens))]
    /\ UNCHANGED <<condor, runnable, stream, max_processes, fs, future, frame,
                   exec_handlers, invoked, consumer, job>>

NextEncode == Encode_arguments \/ Encode_environment \/ Encode_remaps

SpecEncode == InitEncode /\ [][NextEncode]_vars

----------------------------------------------------------------------------
(* The poll loop of _run_job and the generator of its sleep times *)

MaxSleep == 6
MaxYields == 8

(* The arguments: intervals first <= max, among them the defaults, which are
   the ones _run_job uses *)
SleepArgs ==
    {[first |-> f, max |-> m] : f \in 1..MaxSleep, m \in 1..MaxSleep}
    \cup {[first |-> DefaultFirst, max |-> DefaultMax]}

InitPoll ==
    /\ runnable = Process(NoStdin, NoCapture, NoCapture, <<>>, <<>>, DefaultFailureMode)
    /\ stream = <<>>
    /\ max_processes = 1
    /\ fs = InitialFiles
    /\ future = <<>>
    /\ frame = <<>>
    /\ exec_handlers = <<>>
    /\ invoked = <<>>
    /\ consumer = [pc |-> "init", pos |-> 1, received |-> <<>>, exc |-> NoExc]
    /\ job = [pc |-> "none", processor |-> "None", collector |-> "None",
              kind |-> "Noop", exc |-> NoExc]
    /\ condor = NoCluster
    /\ \E a \in {b \in SleepArgs : b.first <= b.max} :
          call = [pc |-> "for", first |-> a.first, max |-> a.max,
                  gen |-> poll_sleep_times(a.first, a.max),
                  yielded |-> <<>>, slept |-> <<>>, queries |-> 0]

(* for sleep_time in _get_poll_sleep_times(): the next value is taken *)
Poll_next ==
    /\ call.pc = "for"
    /\ Len(call.yielded) < MaxYields
    /\ call' = [call EXCEPT !.pc = "sleep",
                            !.gen = poll_sleep_next(@),
                            !.yielded = Append(@, poll_sleep_next(call.gen).val)]
    /\ UNCHANGED <<condor, runnable, stream, max_processes, fs, future, frame,
                   exec_handlers, invoked, consumer, job>>

(* sleep(sleep_time) *)
Poll_sleep ==
    /\ call.pc = "sleep"
    /\ call' = [call EXCEPT !.pc = "query", !.slept = Append(@, call.gen.val)]
    /\ UNCHANGED <<condor, runnable, stream, max_processes, fs, future, frame,
                   exec_handlers, invoked, consumer, job>>

(* The query of the scheduler and the test of the counts: the loop is left
   when everything is completed *)
Poll_query ==
    /\ call.pc = "query"
    /\ \E completed \in BOOLEAN :
          call' = [call EXCEPT !.pc = IF completed THEN "break" ELSE "for",
                               !.queries = @ + 1]
    /\ UNCHANGED <<condor, runnable, stream, max_processes, fs, future, frame,
                   exec_handlers, invoked, consumer, job>>

NextPoll == Poll_next \/ Poll_sleep \/ Poll_query

SpecPoll == InitPoll /\ [][NextPoll]_vars

----------------------------------------------------------------------------
(* Properties of the local executor *)

Returned(i) == future[i].state = "finished" /\ future[i].exc = NoExc
Failed(i) == future[i].state = "finished" /\ future[i].exc # NoExc
Exited(i) == frame[i].returncode # -1
Handlers(i) == {frame[i].cleanup_handlers[j] : j \in 1..Len(frame[i].cleanup_handlers)}
Merged == {exec_handlers[j] : j \in 1..Len(exec_handlers)}

(* C1: with the default failure classification, an invocation whose process
   ended with a non-zero exit code c ends in a process-failed error that
   carries c, and no Result is returned for it *)
C1_NonZeroExitRaises ==
    \A i \in 1..N :
        (runnable.failure_mode = DefaultFailureMode /\ future[i].state = "finished"
            /\ Exited(i) /\ frame[i].returncode # 0)
        => (future[i].exc = ExcCode("_ProcessFailedError", frame[i].returncode)
            /\ future[i].result = NoResult)

(* C2: the exit_code of the Result built for an invocation is the return
   code the process ended with *)
C2_ResultCarriesExitCode ==
    \A i \in 1..N :
        frame[i].pc \in {"check", "merge"} \/ Returned(i)
        => frame[i].result.exit_code = frame[i].returncode

(* C3: when the failure classification is the default one and the process of
   every one of the N parameter sets exits 0, the consumer is never raised
   to, and once the iterator is exhausted it has yielded exactly N pairs, the
   k-th one for the k-th parameter set, each with exit_code 0 *)
C3_AllYielded ==
    (runnable.failure_mode = DefaultFailureMode
        /\ \A i \in 1..N : frame[i].returncode = 0)
    => /\ consumer.pc # "raised"
       /\ \A i \in 1..N : future[i].state = "finished" => Returned(i)
       /\ consumer.pc \in {"exhausted", "exited"}
            => /\ Len(consumer.received) = N
               /\ \A k \in 1..N : /\ consumer.received[k].params = stream[k]
                                  /\ consumer.received[k].result = frame[k].result
                                  /\ consumer.received[k].result.exit_code = 0

C3_Witness ==
    /\ consumer.pc = "exhausted"
    /\ N >= 2
    /\ max_processes >= 2
    /\ runnable.failure_mode = DefaultFailureMode
    /\ \A i \in 1..N : frame[i].returncode = 0
    /\ Len(consumer.received) = N

(* The predicates a failure mode configures, in the order of the spec, and
   their truth on what the process of an invocation ended with *)
Configured(fm) ==
    (IF fm.interpret_exit_code = "none" THEN <<>> ELSE <<"exit_code">>)
    \o (IF fm.interpret_stderr = "none" THEN <<>> ELSE <<"stderr">>)
    \o (IF fm.interpret_stdout = "none" THEN <<>> ELSE <<"stdout">>)

Holds(fm, fr, which) ==
    CASE which = "exit_code" -> interpret_exit_code(fm.interpret_exit_code, fr.returncode) = "true"
      [] which = "stderr" -> fr.err # ""
      [] OTHER -> fr.out # ""

(* C4: a completed process is classified as a failure iff a configured
   predicate is true of what the process ended with (exit code, stderr,
   stdout), the predicates being called in that order up to the first true
   one; with the default failure mode exactly the non-zero exit codes fail *)
C4_Classification ==
    \A i \in 1..N :
        LET fm == runnable.failure_mode
            fr == frame[i]
            conf == Configured(fm)
            trues == {j \in 1..Len(conf) : Holds(fm, fr, conf[j])}
            first == CHOOSE j \in trues : \A l \in trues : j <= l
        IN fr.verdict \in {"ok", "failed"}
           => /\ (fr.verdict = "failed") <=> (trues # {})
              /\ fr.evals = IF trues = {} THEN conf ELSE SubSeq(conf, 1, first)
              /\ fm = DefaultFailureMode
                    => ((fr.verdict = "failed") <=> (fr.returncode # 0))

(* C5: no registered cleanup handler is invoked more than once *)
C5_HandlersAtMostOnce == \A h \in DOMAIN invoked : invoked[h] <= 1

(* C6: when an invocation has ended in failure, every cleanup handler
   registered for it has been invoked and none of them is in the registry of
   the executor *)
C6_FailureRunsAllHandlers ==
    \A i \in 1..N :
        Failed(i) => /\ \A h \in Handlers(i) : count(invoked, h) >= 1
                     /\ Handlers(i) \cap Merged = {}

(* The temporary files mkstemp has made for invocation i that still exist *)
TempFilesOf(i) == {q \in DOMAIN fs : q.kind = "tmp" /\ q.n \div 10 = i}

(* C7: when the preparation of an invocation has failed, no temporary file
   created for that invocation exists any more *)
C7_NoTempLeftAfterFailedPreparation ==
    \A i \in 1..N : (Failed(i) /\ frame[i].spawned = 0) => TempFilesOf(i) = {}

(* C8: until the executor is shut down, no cleanup handler of an invocation
   that returned a Result has been invoked, and every file the Result refers
   to is still there *)
C8_ResultFilesOutliveYield ==
    consumer.pc # "exited"
    => \A i \in 1..N :
          Returned(i) => /\ \A h \in Handlers(i) : count(invoked, h) = 0
                         /\ frame[i].made \subseteq DOMAIN fs

(* The three parts of C10: no step cancels or touches a running sibling; the
   consumer is raised to at the failing element; whatever was started has
   finished when the executor has shut down *)
C10_SiblingsUntouched ==
    \A i \in 1..N :
        future[i].state = "running"
        => /\ future'[i].state \in {"running", "finished"}
           /\ (\E j \in 1..N : j # i /\ ~Failed(j) /\ Failed(j)')
                => (future'[i] = future[i] /\ frame'[i] = frame[i])

C10_RaisedAtFailingElement ==
    consumer.pc = "raised"
    => /\ consumer.pos \in 1..N
       /\ Failed(consumer.pos)
       /\ consumer.exc = future[consumer.pos].exc
       /\ Len(consumer.received) = consumer.pos - 1
       /\ \A k \in 1..(consumer.pos - 1) :
             Returned(k) /\ consumer.received[k].params = stream[k]

C10_RunToCompletion ==
    consumer.pc = "exited"
    => \A i \in 1..N : frame[i].pc # "idle" => future[i].state = "finished"

(* C10: a failing invocation leaves its siblings alone: an invocation that is
   running is never cancelled and its state is not touched by the step in
   which another one fails; the consumer is raised to exactly when it reaches
   the failing element, having received the pairs before it *)
C10_FailureAbortsOnlyItself ==
    /\ [](C10_RaisedAtFailingElement /\ C10_RunToCompletion)
    /\ [][C10_SiblingsUntouched]_vars

C10_Witness ==
    /\ consumer.pc = "raised"
    /\ \E j \in 1..N : j # consumer.pos /\ future[j].state = "running"

(* The parameter sets taken from the stream whose invocation has not ended *)
Unfinished == {i \in 1..N : future[i].state \in {"pending", "running"}}

(* C11: the parameter sets taken from the stream whose invocation has not
   finished are never more than the pool size, so a stream longer than the
   pool is not read in full before results are consumed *)
C11_Backpressure == Cardinality(Unfinished) <= max_processes

----------------------------------------------------------------------------
(* Properties of the preparation protocol *)

(* The resources of invocation i; resource k has been attempted once the
   frame has moved past it, and the attempt has failed when the invocation
   ended there without a process *)
Res(i) == Resources(with_params(runnable, stream[i]))
Attempted(i, k) == frame[i].k > k
FailedAt(i, k) == Failed(i) /\ frame[i].spawned = 0 /\ frame[i].k = k + 1
JustPrepared(i, k) == frame[i].pc = "prepare" /\ frame[i].k = k + 1

(* The descriptor _run_subprocess holds for resource k *)
InOffset(i) ==
    Len(Res(i)) - Len(runnable.input_files) - Len(runnable.output_files)

Descriptor(i, k) ==
    LET res == Res(i)[k]
    IN CASE res.slot = "stdin" -> frame[i].stdin
         [] res.slot = "stdout" -> frame[i].stdout
         [] res.slot = "stderr" -> frame[i].stderr
         [] res.slot = "in" -> frame[i].input_files[k - InOffset(i)]
         [] OTHER -> frame[i].output_files[k - InOffset(i) - Len(runnable.input_files)]

(* C12: the preparation of an input file pinned to a path that exists, with
   must_not_exist set, ends the invocation in a process-failed error, and no
   process has been spawned for it *)
C12_PinnedInputConflict ==
    \A i \in 1..N : \A k \in 1..Len(Res(i)) :
        LET spec == Res(i)[k].spec
        IN (Res(i)[k].slot = "in" /\ spec.path # NoPath /\ spec.must_not_exist
                /\ Attempted(i, k) /\ frame[i].pre[k])
           => /\ FailedAt(i, k)
              /\ future[i].exc.type = "_ProcessFailedError"
              /\ frame[i].spawned = 0

(* C36: when the preparation of an input or output file pinned to a path
   that exists, with must_not_exist set, has failed, the file found there is
   still there with the content and the mode it had, and no cleanup handler
   of the invocation or of the executor names that path, none has been
   called for it: the cleanup after the failure does not delete it *)
PinnedConflicts(i) ==
    {k \in 1..Len(Res(i)) : /\ Res(i)[k].slot \in {"in", "out"}
                            /\ Res(i)[k].spec.path # NoPath
                            /\ Res(i)[k].spec.must_not_exist
                            /\ Attempted(i, k)
                            /\ frame[i].pre[k]}

C36_ConflictLeavesFileUntouched ==
    \A i \in 1..N : \A k \in PinnedConflicts(i) :
        LET path == Res(i)[k].spec.path
        IN FailedAt(i, k)
           => /\ exists(fs, path)
              /\ fs[path] = PinnedFiles[path]
              /\ \A h \in Handlers(i) \cup Merged \cup DOMAIN invoked : h.path # path

C36_Witness ==
    \E i \in 1..N : \E k \in PinnedConflicts(i) :
        /\ Res(i)[k].slot = "out"
        /\ Res(i)[k].spec.cleanup_after_finish
        /\ FailedAt(i, k)
        /\ consumer.pc = "exited"
        /\ fs[Res(i)[k].spec.path].content = "P"

(* C37: the steps of one local invocation happen in this order: the
   resources are prepared one after the other, stdin, stdout, stderr, the
   input files, the output files; the external process is spawned once, and
   only when every one of them has been prepared without an exception; it has
   exited before the exit stack is left and the Result is built; the failure
   modes are evaluated on that Result *)
SlotRank(slot) ==
    CASE slot = "stdin" -> 1 [] slot = "stdout" -> 2 [] slot = "stderr" -> 3
      [] slot = "in" -> 4 [] OTHER -> 5

AllPrepared(i) ==
    /\ frame[i].k = Len(Res(i)) + 1
    /\ Len(frame[i].pre) = Len(Res(i))
    /\ \A k \in 1..Len(Res(i)) : Descriptor(i, k) # NoDescriptor

OrderedSteps(i) ==
    /\ \A j, k \in 1..Len(Res(i)) :
            j < k => SlotRank(Res(i)[j].slot) <= SlotRank(Res(i)[k].slot)
    /\ frame[i].spawned \in {0, 1}
    /\ frame[i].spawned = 1 => AllPrepared(i)
    /\ frame[i].pc = "spawned" => frame[i].spawned = 1 /\ ~Exited(i)
    /\ Exited(i) => frame[i].spawned = 1
    /\ frame[i].pc \in {"check", "merge"} => Exited(i)
    /\ frame[i].result # NoResult => Exited(i) /\ frame[i].pc \in {"check", "merge", "done"}
    /\ frame[i].verdict # "" => Exited(i) /\ frame[i].pc \in {"merge", "done"}
    /\ frame[i].evals # <<>> => Exited(i) /\ frame[i].pc \in {"merge", "done"}
    /\ (Failed(i) /\ frame[i].k <= Len(Res(i))) => frame[i].spawned = 0 /\ ~Exited(i)

C37_StepsInOrder ==
    /\ [](\A i \in 1..N : OrderedSteps(i))
    /\ [][\A i \in 1..N :
            /\ frame'[i].k # frame[i].k
                  => /\ frame'[i].k = frame[i].k + 1
                     /\ frame[i].spawned = 0 /\ frame'[i].spawned = 0
            /\ frame'[i].spawned # frame[i].spawned
                  => /\ frame[i].pc = "prepare" /\ AllPrepared(i)
                     /\ frame'[i].pc = "spawned"
            /\ (frame'[i].returncode # frame[i].returncode \/ frame'[i].result # frame[i].result)
                  => frame[i].pc = "spawned"
            /\ frame'[i].verdict # frame[i].verdict
                  => frame[i].pc = "check" /\ Exited(i)]_vars

C37_Witness ==
    \E i \in 1..N :
        /\ Len(Res(i)) = 3
        /\ Res(i)[1].slot = "stdin" /\ Res(i)[3].slot = "out"
        /\ frame[i].spawned = 1
        /\ frame[i].result # NoResult
        /\ frame[i].verdict = "ok"
        /\ frame[i].pc = "done"

(* What a source writes *)
SourceContent(source, f) ==
    IF source.kind = "path" THEN f[source.path].content ELSE source.content

(* C13: the preparation of an input file pinned to a path with must_not_exist
   unset succeeds whether the path exists or not: the descriptor is not
   temporary and names the pinned path three times, and when preparation
   returns the file holds the source content with the permission bits of
   mode under the umask *)
C13_PinnedInputAccepted ==
    \A i \in 1..N : \A k \in 1..Len(Res(i)) :
        LET spec == Res(i)[k].spec
        IN (Res(i)[k].slot = "in" /\ spec.path # NoPath /\ ~spec.must_not_exist
                /\ spec.source.kind \in {"bytes", "str"} /\ Attempted(i, k))
           => /\ ~FailedAt(i, k)
              /\ Descriptor(i, k) =
                    FileDescriptor(spec.name, spec.path, spec.path, FALSE,
                                   spec.cleanup_after_finish, spec.path)
              /\ JustPrepared(i, k)
                    => /\ exists(fs, spec.path)
                       /\ fs[spec.path] = File(SourceContent(spec.source, fs),
                                               spec.mode \ Umask)

(* The input files of invocation i that are literal bytes without a pinned
   path, and the handlers registered for the file of a descriptor *)
LiteralInputs(i) ==
    {k \in 1..Len(Res(i)) : /\ Res(i)[k].slot = "in"
                            /\ Res(i)[k].spec.source.kind = "bytes"
                            /\ Res(i)[k].spec.path = NoPath}

HandlersFor(i, d) == {h \in Handlers(i) : h.path = d.open_path}

(* C14: an input file of literal bytes without a pinned path is prepared as
   a temporary file: the descriptor is temporary, the file holds exactly the
   bytes until a cleanup handler registered for it has run, and does not
   exist afterwards *)
C14_LiteralInputInTempFile ==
    \A i \in 1..N : \A k \in LiteralInputs(i) :
        Attempted(i, k)
        => /\ ~FailedAt(i, k)
           /\ LET d == Descriptor(i, k)
              IN /\ d.temporary
                 /\ d.open_path.kind = "tmp"
                 /\ HandlersFor(i, d) # {}
                 /\ IF \A h \in HandlersFor(i, d) : count(invoked, h) = 0
                    THEN /\ exists(fs, d.open_path)
                         /\ fs[d.open_path].content = Res(i)[k].spec.source.content
                    ELSE ~exists(fs, d.open_path)

C14_Witness ==
    /\ consumer.pc = "exited"
    /\ \E i \in 1..N : \E k \in LiteralInputs(i) :
          /\ Returned(i)
          /\ frame[i].spawned = 1
          /\ \E h \in HandlersFor(i, Descriptor(i, k)) : count(invoked, h) = 1
          /\ ~exists(fs, Descriptor(i, k).open_path)

(* How many handlers invocation i has registered for the file of d *)
Registered(i, d) ==
    Cardinality({m \in 1..Len(frame[i].cleanup_handlers) :
                    frame[i].cleanup_handlers[m].path = d.open_path})

(* C15: for every descriptor a preparation has returned, cleanup is set
   exactly when the file is temporary or it is pinned with
   cleanup_after_finish; exactly one deletion handler is registered for it
   when cleanup is set and none otherwise, and no handler that was invoked
   names the file of a descriptor without cleanup *)
C15_OneHandlerPerCleanup ==
    \A i \in 1..N : \A k \in 1..Len(Res(i)) :
        (Attempted(i, k) /\ ~FailedAt(i, k))
        => LET d == Descriptor(i, k)
               spec == Res(i)[k].spec
           IN /\ d.cleanup <=> (d.temporary \/ (d.path # NoPath /\ spec.cleanup_after_finish))
              /\ Registered(i, d) = IF d.cleanup THEN 1 ELSE 0
              /\ ~d.cleanup => \A h \in DOMAIN invoked : h.path # d.open_path

C15_Witness ==
    /\ consumer.pc = "exited"
    /\ \E i \in 1..N :
          /\ frame[i].spawned = 1
          /\ \E k \in 1..Len(Res(i)) :
                Descriptor(i, k).cleanup /\ Registered(i, Descriptor(i, k)) = 1
          /\ \E k \in 1..Len(Res(i)) :
                /\ ~Descriptor(i, k).cleanup
                /\ Registered(i, Descriptor(i, k)) = 0
                /\ exists(fs, Descriptor(i, k).open_path)

(* The input files of invocation i that refer to an existing file and have
   no pinned path *)
ReferencedInputs(i) ==
    {k \in 1..Len(Res(i)) : /\ Res(i)[k].slot = "in"
                            /\ Res(i)[k].spec.source.kind = "path"
                            /\ Res(i)[k].spec.path = NoPath
                            /\ Res(i)[k].spec.source.path \in DOMAIN InitialFiles}

(* C16: an input that refers to an existing file and has no pinned path is
   not copied: the descriptor points at the source, is neither temporary nor
   to be cleaned up, no file is made and no handler registered for it, and
   the source file stays as it was, through preparation and every cleanup *)
C16_SourceReferencedNotCopied ==
    \A i \in 1..N : \A k \in ReferencedInputs(i) :
        LET spec == Res(i)[k].spec
            src == spec.source.path
        IN /\ exists(fs, src) /\ fs[src] = InitialFiles[src]
           /\ \A h \in DOMAIN invoked : h.path # src
           /\ Attempted(i, k)
                => /\ ~FailedAt(i, k)
                   /\ Descriptor(i, k) =
                         FileDescriptor(spec.name, src, src, FALSE, FALSE, NoPath)
                   /\ Registered(i, Descriptor(i, k)) = 0
                   /\ ~exists(fs, mkstemp(i, k))

C16_Witness ==
    /\ consumer.pc = "exited"
    /\ DOMAIN invoked # {}
    /\ \E i \in 1..N : \E k \in ReferencedInputs(i) :
          /\ Returned(i)
          /\ Descriptor(i, k).open_path = Res(i)[k].spec.source.path
          /\ exists(fs, Descriptor(i, k).open_path)

(* C17: an input that refers to an existing file and is pinned to a path
   (which may be taken) is rejected with a process-failed error exactly when
   the pinned path is the file it refers to; pinned to any other path,
   existing or not, it is prepared and the source is copied there *)
C17_CircularDependency ==
    \A i \in 1..N : \A k \in 1..Len(Res(i)) :
        LET spec == Res(i)[k].spec
        IN (Res(i)[k].slot = "in" /\ spec.source.kind = "path" /\ spec.path # NoPath
                /\ spec.source.path \in DOMAIN InitialFiles /\ ~spec.must_not_exist
                /\ Attempted(i, k))
           => IF spec.path = spec.source.path
              THEN FailedAt(i, k) /\ future[i].exc.type = "_ProcessFailedError"
              ELSE /\ ~FailedAt(i, k)
                   /\ JustPrepared(i, k)
                        => /\ exists(fs, spec.path)
                           /\ fs[spec.path].content = fs[spec.source.path].content

(* The output files of invocation i that the process is to create itself *)
UncreatedOutputs(i) ==
    {k \in 1..Len(Res(i)) : Res(i)[k].slot = "out" /\ ~Res(i)[k].spec.create}

(* C18: from the return of prepare_output_file for an output file with
   create unset until the process has been started and runs, the path of the
   descriptor does not exist *)
C18_UncreatedOutputAbsent ==
    \A i \in 1..N : \A k \in UncreatedOutputs(i) :
        (Attempted(i, k) /\ ~FailedAt(i, k) /\ frame[i].pc \in {"prepare", "spawned"})
        => ~exists(fs, Descriptor(i, k).open_path)

C18_Witness ==
    \E i \in 1..N : \E k \in UncreatedOutputs(i) :
        /\ frame[i].pc = "spawned"
        /\ Descriptor(i, k).temporary
        /\ ~exists(fs, Descriptor(i, k).open_path)

(* C19: an invocation with an output pinned to a path (which may be taken)
   runs its process and ends in one of two ways: the path is missing when
   the scope is left, and the invocation fails with a process-failed error
   and without a Result; or the path exists, and it carries the permission
   bits of mode under the umask *)
C19_PinnedOutputFixup ==
    \A i \in 1..N : \A k \in 1..Len(Res(i)) :
        LET spec == Res(i)[k].spec
        IN (Res(i)[k].slot = "out" /\ spec.path # NoPath /\ ~spec.must_not_exist
                /\ future[i].state = "finished")
           => /\ Exited(i)
              /\ IF spec.path \in frame[i].made
                 THEN exists(fs, spec.path) => fs[spec.path].mode = spec.mode \ Umask
                 ELSE /\ Failed(i)
                      /\ future[i].exc.type = "_ProcessFailedError"
                      /\ future[i].result = NoResult

(* C34: when Subprocessor.__exit__ has returned, no worker is running, every
   cleanup handler of every invocation that returned its pair with no
   failure predicate raising has been invoked exactly once, and the registry
   of the executor is empty *)
C34_ShutdownInvokesEveryMergedHandler ==
    consumer.pc = "exited"
    => /\ Running = {}
       /\ \A i \in 1..N :
             Returned(i) /\ frame[i].verdict = "ok"
                => \A h \in Handlers(i) : count(invoked, h) = 1
       /\ exec_handlers = <<>>

(* C35: a call of a registry of cleanup handlers invokes every handler in it,
   whether or not one of them raises: after a failure predicate has failed
   an invocation or has raised, each handler of the invocation has been
   invoked; and after Subprocessor.__exit__ each handler that was merged has
   been invoked and the registry is empty *)
C35_RaisingHandlerSkipsNone ==
    /\ \A i \in 1..N :
          frame[i].verdict \in {"failed", "raised"} /\ future[i].state = "finished"
             => \A h \in Handlers(i) : count(invoked, h) >= 1
    /\ consumer.pc = "exited"
          => /\ \A h \in Merged : count(invoked, h) >= 1
             /\ \A i \in 1..N : Returned(i) => \A h \in Handlers(i) : count(invoked, h) >= 1
             /\ Merged = {}

----------------------------------------------------------------------------
(* Properties of the remote executor *)

(* The procs of the submitted cluster, and those the last snapshot shows as
   completed *)
Procs == 0..(Len(condor.processes) - 1)
Completed == {p \in DOMAIN condor.job_states : condor.job_states[p].job_status = "COMPLETED"}

(* C20: after a status query the poll loop has been left exactly when the
   snapshot of that query shows as many completed procs as the cluster has
   procs; so when the results are assembled, and from then on, the last
   snapshot holds a COMPLETED state for every proc of the cluster *)
C20_PollingStopsWhenAllCompleted ==
    /\ (condor.pc = "polling" /\ condor.polled)
            => Cardinality(Completed) # Cardinality(Procs)
    /\ condor.pc \in {"assemble", "returned", "raised", "exited"} /\ condor.polled
            => /\ Cardinality(Completed) = Cardinality(Procs)
               /\ \A p \in Procs : p \in Completed

(* The submission scope of _run_job: the cluster is in the queue and the
   with-block has not been left *)
InScope == condor.pc \in {"polling", "assemble"}

(* C21: the removal of a submitted cluster is requested exactly once, at the
   step that leaves the submission scope, whether the scope is left with the
   results, with a failure of the poll loop, with the failure of a proc, or
   with a failing exit callback; it is requested at no other step *)
C21_RemovalExactlyOnce ==
    [][/\ (InScope /\ ~InScope') => (condor.removals = 0 /\ condor'.removals = 1)
       /\ ~(InScope /\ ~InScope') => condor'.removals = condor.removals]_vars

C21_Witness ==
    /\ condor.pc = "raised"
    /\ condor.removals = 1
    /\ condor.exc # NoExc

(* The generator has raised: _run_job was left before a cluster was submitted *)
GeneratorRaised ==
    condor.pc \in {"raised", "exited"} /\ condor.removals = 0 /\ condor.exc # NoExc

(* C22: when the preparation of a parameter set fails, the generator has
   yielded a placeholder record before the failure leaves it, so at least
   one record was yielded even if the first parameter set fails; the
   placeholder is a record that is not among the procs, and the failure is
   raised only from the point after the placeholder *)
C22_PlaceholderBeforeRaise ==
    /\ condor.pc = "submitting"
            => condor.exc = NoExc /\ condor.yielded = Len(condor.processes)
    /\ condor.pc = "placeholder"
            => condor.exc # NoExc /\ condor.yielded = Len(condor.processes) + 1
    /\ GeneratorRaised
            => condor.yielded >= 1 /\ Len(condor.processes) = condor.yielded - 1

C22_Witness ==
    /\ GeneratorRaised
    /\ condor.yielded = 1
    /\ condor.processes = <<>>

(* The loop over the procs has run: the poll loop was left on a snapshot that
   shows every proc of the cluster as completed *)
Assembled ==
    /\ condor.pc \in {"returned", "raised", "exited"}
    /\ condor.polled
    /\ \A p \in Procs : p \in Completed

(* The procs whose ad says that a signal ended them *)
Signalled == {p \in Procs \cap DOMAIN condor.queue : condor.queue[p].ExitSignal # -1}

(* C23: when the ad of a proc says that a signal ended it, the assembly of
   the results does not return; when it is the first proc, the assembly is
   left with a process-failed error that carries the number of the signal,
   and no failure predicate has been evaluated *)
C23_SignalIsHardFailure ==
    Assembled /\ Signalled # {}
    => /\ condor.cause # NoExc
       /\ 0 \in Signalled
            => /\ condor.cause = ExcCode("_ProcessFailedError", condor.queue[0].ExitSignal)
               /\ condor.evals = 0

(* C25: the error with which the assembly of the results is left for a proc
   that failed, by a signal or by the verdict of a failure predicate, names
   the parameter set of that proc *)
C25_ErrorNamesParameterSet ==
    Assembled /\ condor.cause.type = "_ProcessFailedError"
    => /\ HasAttr(condor.cause, "params")
       /\ \E p \in Procs : condor.cause.params = condor.processes[p + 1].params

(* The records of procs among the records yielded *)
RealRecords == {r \in DOMAIN condor.records : condor.records[r] # Placeholder}

(* The accessors of a result, and the paths the preparation of the i-th
   parameter set can have made: temporary files carry its number, a
   referenced source is the one its resolved template names *)
Accessors(result) ==
    {a \in {result.stdin, result.stdout, result.stderr} : a # NoAccessor}
    \cup {result.input_files[j] : j \in DOMAIN result.input_files}
    \cup {result.output_files[j] : j \in DOMAIN result.output_files}

PreparedFor(path, i) ==
    \/ path.kind = "tmp" /\ path.n \div 10 = i
    \/ \E j \in DOMAIN with_params(runnable, stream[i]).input_files :
          path = with_params(runnable, stream[i]).input_files[j].source.path

(* C31: the records of procs are the first records yielded and there are as
   many of them as entries in the proc list; the i-th entry belongs to the
   i-th parameter set of the stream and its record names the files prepared
   for it; the i-th pair returned holds the i-th parameter set and a Result
   whose accessors are those of the descriptors of the i-th entry *)
C31_RecordsMatchProcs ==
    /\ Cardinality(RealRecords) = Len(condor.processes)
    /\ \A i \in 1..Len(condor.processes) :
          /\ i \in RealRecords
          /\ condor.processes[i].params = stream[i]
          /\ \A k \in DOMAIN condor.processes[i].descriptors :
                PreparedFor(condor.processes[i].descriptors[k].open_path, i)
          /\ HasAttr(condor.records[i], "error")
                => PreparedFor(condor.records[i].error, i)
    /\ \A i \in 1..Len(condor.results) :
          /\ condor.results[i].params = stream[i]
          /\ Accessors(condor.results[i].result)
                = {accessor(condor.processes[i].descriptors[k]) :
                        k \in DOMAIN condor.processes[i].descriptors}

C31_Witness ==
    /\ condor.pc = "returned"
    /\ Len(condor.results) = 2
    /\ stream[1] # stream[2]
    /\ condor.results[2].result.stderr # NoAccessor

(* The assembly of the results was left for a proc that a signal ended or
   that a failure predicate classified as failed *)
ProcFailed ==
    /\ Assembled
    /\ condor.pc \in {"raised", "exited"}
    /\ Signalled # {} \/ condor.cause.type = "_ProcessFailedError"

(* C32: when a proc of the cluster was ended by a signal or classified as
   failed, _run_job has returned no pair, every cleanup handler of the files
   prepared for the cluster has been invoked when the error leaves _run_job,
   and none of them is among the handlers of the executor *)
C32_FailedClusterCleansUp ==
    ProcFailed
    => /\ condor.results = <<>>
       /\ \A k \in DOMAIN condor.cleanup_handlers :
             count(invoked, condor.cleanup_handlers[k]) >= 1
       /\ \A k \in DOMAIN condor.cleanup_handlers, l \in DOMAIN exec_handlers :
             exec_handlers[l] # condor.cleanup_handlers[k]

(* The poll loop is running and the queue holds every proc of the cluster as
   completed; a proc is held in the queue *)
AllCompleted ==
    /\ condor.pc = "polling"
    /\ \A p \in Procs : p \in DOMAIN condor.queue /\ condor.queue[p].JobStatus = "COMPLETED"

Held(p) == p \in DOMAIN condor.queue /\ condor.queue[p].JobStatus = "HELD"

(* C33: once every proc of the cluster is completed the poll loop is left;
   the loop is left for the assembly only by a round whose query finds every
   proc of the queue completed; and when a proc stays held for ever, the
   loop goes on for ever, from some round on sleeping the maximal time
   before each query, unless a query of the scheduler raises *)
C33_PollLoopHasNoTimeout ==
    /\ AllCompleted ~> condor.pc # "polling"
    /\ [][(condor.pc = "polling" /\ condor'.pc = "assemble")
            => \A p \in DOMAIN condor.queue : condor.queue[p].JobStatus = "COMPLETED"]_vars
    /\ \A p \in {0, 1} :
          <>[]Held(p) => \/ <>[](condor.pc = "polling" /\ call.gen.val = DefaultMax)
                         \/ <>(condor.cause = Exc("RuntimeError"))

C33_Witness ==
    /\ condor.pc = "polling"
    /\ condor.polled
    /\ Held(0)
    /\ call.gen.at = "repeat"
    /\ call.gen.val = DefaultMax

(* C38, as stated: every record of a proc carries the guard
   leave_in_queue = 'JobStatus != 3', whatever extra commands the job
   definition has *)
Guard == "JobStatus != 3"

C38_EveryRecordGuarded ==
    \A r \in RealRecords :
        /\ HasAttr(condor.records[r], "leave_in_queue")
        /\ condor.records[r].leave_in_queue = Guard

(* C38: every record of a proc has a leave_in_queue command; it is the guard
   'JobStatus != 3' unless the extra commands of the job definition name
   leave_in_queue themselves, and then it is what they say, as for every
   other command they name *)
C38_GuardUnlessOverridden ==
    \A r \in RealRecords :
        LET record == condor.records[r]
            commands == condor.job.commands
        IN /\ HasAttr(record, "leave_in_queue")
           /\ record.leave_in_queue =
                 IF HasAttr(commands, "leave_in_queue") THEN commands.leave_in_queue ELSE Guard
           /\ \A key \in DOMAIN commands : record[key] = commands[key]

C38_Witness ==
    /\ RealRecords # {}
    /\ ~condor.job.transfer_files
    /\ HasAttr(condor.job.commands, "should_transfer_files")
    /\ \A r \in RealRecords : /\ condor.records[r].leave_in_queue = Guard
                               /\ condor.records[r].should_transfer_files = "YES"
    /\ condor.pc = "returned"

(* The paths of the links and placeholders the generator makes *)
LinksAndPlaceholders == {q \in DOMAIN fs : q.name \in {"link", "placeholder"}}

ScopeLeft == condor.pc \in {"returned", "raised", "exited"}

Distinct(seq) == \A j, l \in 1..Len(seq) : j # l => seq[j] # seq[l]

(* C39: with file transfer, the record of a proc lists every output file once
   under the basename of its process path, these basenames differ from each
   other, the remap table takes each of them to the open path of the file;
   every input file is listed under a path in the temporary directory, its
   own temporary file or a link to the file it refers to, no two alike; the
   arguments of the process hold the basename for every __file_NAME. Without
   file transfer the arguments hold the prepared path itself, the record has
   no transfer lists and no link or placeholder is ever made. When the scope
   of the submission has been left, no link and no placeholder is left *)
C39_TransferNaming ==
    /\ \A r \in RealRecords :
          LET record == condor.records[r]
              resources == Resources(with_params(runnable, stream[r]))
              descriptors == condor.processes[r].descriptors
              ins == BySlot(resources, descriptors, "in")
              outs == BySlot(resources, descriptors, "out")
              files == ins \o outs
          IN IF condor.job.transfer_files
             THEN /\ Len(record.transfer_output_files) = Len(outs)
                  /\ Distinct(record.transfer_output_files)
                  /\ DOMAIN record.transfer_output_remaps
                        = {record.transfer_output_files[j] : j \in 1..Len(outs)}
                  /\ \A j \in 1..Len(outs) :
                        /\ record.transfer_output_files[j] = basename(outs[j].process_path)
                        /\ record.transfer_output_remaps[record.transfer_output_files[j]]
                              = outs[j].open_path
                  /\ Len(record.transfer_input_files) = Len(ins)
                  /\ Distinct(record.transfer_input_files)
                  /\ \A j \in 1..Len(ins) :
                        LET passed == record.transfer_input_files[j]
                        IN /\ passed.kind = "tmp"
                           /\ \/ ins[j].temporary /\ passed = ins[j].open_path
                              \/ /\ ~ins[j].temporary /\ passed.name = "link"
                                 /\ ~ScopeLeft => /\ exists(fs, passed)
                                                  /\ fs[passed].link = ins[j].open_path
                  /\ Distinct([j \in 1..Len(files) |-> basename(files[j].process_path)])
                  /\ record.arguments
                        = [j \in 1..Len(files) |-> basename(files[j].process_path)]
             ELSE /\ record.arguments = [j \in 1..Len(files) |-> files[j].open_path]
                  /\ \A j \in 1..Len(files) : files[j].process_path = files[j].open_path
                  /\ ~HasAttr(record, "transfer_input_files")
                  /\ ~HasAttr(record, "transfer_output_remaps")
    /\ ~condor.job.transfer_files => LinksAndPlaceholders = {}
    /\ ScopeLeft => LinksAndPlaceholders = {}

C39_Witness ==
    /\ condor.job.transfer_files
    /\ condor.pc = "returned"
    /\ Len(condor.results) = 1
    /\ RealRecords = {1}
    /\ Len(condor.records[1].transfer_output_files) = 1
    /\ \E j \in 1..Len(condor.records[1].transfer_input_files) :
          condor.records[1].transfer_input_files[j].name = "link"
    /\ LinksAndPlaceholders = {}

----------------------------------------------------------------------------
(* Properties of the environment builder *)

(* The items of all recorded steps in the order they were recorded, and the
   places at which a name is mentioned *)
RECURSIVE AllItems(_)
AllItems(stack) == IF stack = <<>> THEN <<>> ELSE Head(stack) \o AllItems(Tail(stack))

Mentions(items, name) == {j \in 1..Len(items) : items[j].key = name}

LastMention(items, name) ==
    CHOOSE j \in Mentions(items, name) : \A l \in Mentions(items, name) : l <= j

(* C40: the list build() returns names no variable twice; a name is in it
   exactly when the last recorded step that mentions it sets it, and then
   with the value of that step. A method call leaves every Fluid made before
   as it was; the Fluid it returns holds the steps of the receiver and one
   more, and a call that raises returns none *)
C40_EnvironmentLastStepWins ==
    /\ [](call.pc = "built" =>
            LET items == AllItems(call.fluids[Len(call.fluids)])
                built == call.variables
            IN /\ \A j, l \in 1..Len(built) : j # l => built[j].key # built[l].key
               /\ \A name \in EnvNames :
                     (\E j \in 1..Len(built) : built[j].key = name)
                     <=> /\ Mentions(items, name) # {}
                         /\ items[LastMention(items, name)].value # EnvNone
               /\ \A j \in 1..Len(built) :
                     built[j].value = items[LastMention(items, built[j].key)].value.text)
    /\ [][(call.pc = "env" /\ call'.pc = "env") =>
            LET n == Len(call.fluids)
                receiver == call.fluids[n]
            IN /\ SubSeq(call'.fluids, 1, n) = call.fluids
               /\ IF call'.exc # NoExc THEN Len(call'.fluids) = n
                  ELSE /\ Len(call'.fluids) = n + 1
                       /\ Len(call'.fluids[n + 1]) = Len(receiver) + 1
                       /\ SubSeq(call'.fluids[n + 1], 1, Len(receiver)) = receiver]_vars

C40_Witness ==
    /\ call.pc = "built"
    /\ Len(call.fluids) = 4
    /\ call.fluids[4][1] = environ
    /\ call.fluids[4][2] = <<[key |-> "A", value |-> EnvNone], [key |-> "B", value |-> EnvNone]>>
    /\ call.fluids[4][3] = <<[key |-> "A", value |-> EnvStr("2")]>>
    /\ call.fluids[3] = SubSeq(call.fluids[4], 1, 2)
    /\ call.variables = <<[key |-> "A", value |-> "2"]>>

----------------------------------------------------------------------------
(* Properties of the template builder *)

(* The state the recorded steps describe when they are taken one after the
   other: the command, captures and failure mode set last, the files added
   and not removed afterwards *)
RECURSIVE Final(_, _, _)
Final(stack, k, p) ==
    IF k > Len(stack) THEN p
    ELSE LET step == stack[k]
         IN Final(stack, k + 1,
                CASE step.op = "remove_input_file" ->
                        [p EXCEPT !.input_files = @ \ {step.name}]
                  [] step.op = "remove_output_file" ->
                        [p EXCEPT !.output_files = @ \ {step.name}]
                  [] OTHER -> Fluid_f(step, p).p)

Valid(p) ==
    /\ p.cmd # ""
    /\ p.input_files \cap p.output_files = {}
    /\ p.failure_mode.interpret_stderr # "none" => p.stderr
    /\ p.failure_mode.interpret_stdout # "none" => p.stdout

(* C24: build() succeeds exactly when the state that the recorded steps
   describe at their end has a command, disjoint input and output file names
   and a capture for every interpreted stream *)
C24_BuildJudgesFinalState ==
    call.pc = "built"
    => (call.exc = NoExc <=> Valid(Final(call.stack, 1, Process_init)))

----------------------------------------------------------------------------
(* Properties of the encoders *)

(* A token with every single and double quote in it repeated *)
Doubled(token) ==
    Concat([i \in 1..Len(token) |->
        IF token[i] \in {SQ, DQ} THEN <<token[i], token[i]>> ELSE <<token[i]>>])

(* The per-token rule: single quotes around the token if, and only if, it
   holds a space, a tab or a single quote or is empty *)
Token(token) ==
    IF token = <<>> \/ \E i \in 1..Len(token) : token[i] \in {" ", TAB, SQ}
    THEN <<SQ>> \o Doubled(token) \o <<SQ>>
    ELSE Doubled(token)

Body(str) == SubSeq(str, 2, Len(str) - 1)

(* C26: the encoded argument list starts and ends with a double quote; what
   is between them is the tokens under the per-token rule, joined by one
   space. So [] gives "", [''] gives "''", ['"'] gives four double quotes and
   ['a a'] gives "'a a'" *)
C26_ArgsToStr ==
    call.pc = "arguments"
    => /\ Len(call.str) >= 2
       /\ call.str[1] = DQ
       /\ call.str[Len(call.str)] = DQ
       /\ Body(call.str)
            = str_join(<<" ">>, [i \in 1..Len(call.tokens) |-> Token(call.tokens[i])])
       /\ call.tokens = <<>> => call.str = <<DQ, DQ>>
       /\ call.tokens = << <<>> >> => call.str = <<DQ, SQ, SQ, DQ>>
       /\ call.tokens = << <<DQ>> >> => call.str = <<DQ, DQ, DQ, DQ>>
       /\ call.tokens = << <<"a", " ", "a">> >>
            => call.str = <<DQ, SQ, "a", " ", "a", SQ, DQ>>

C26_Witness ==
    /\ call.pc = "arguments"
    /\ call.tokens = << <<"a", TAB>>, <<SQ>> >>
    /\ call.str = <<DQ, SQ, "a", TAB, SQ, " ", SQ, SQ, SQ, SQ, DQ>>

(* C27: the encoded environment starts and ends with a double quote; what
   is between them is the pairs NAME=value joined by one space, the name and
   the value of every pair under the per-token rule of the arguments. So
   {'a': ''} gives "a=''" *)
C27_EnvironmentToStr ==
    call.pc = "environment" /\ (\A i \in 1..Len(call.tokens) : i % 2 = 1 => call.tokens[i] # <<>>)
    => /\ Len(call.str) >= 2
       /\ call.str[1] = DQ
       /\ call.str[Len(call.str)] = DQ
       /\ Body(call.str)
            = str_join(<<" ">>, [i \in 1..Len(Items(call.tokens)) |->
                    Token(Items(call.tokens)[i].key) \o <<"=">>
                    \o Token(Items(call.tokens)[i].value)])
       /\ call.tokens = << <<"a">>, <<>> >> => call.str = <<DQ, "a", "=", SQ, SQ, DQ>>

(* A string with a backslash put before every occurrence of a character *)
Escaped(str, c) ==
    Concat([i \in 1..Len(str) |-> IF str[i] = c THEN <<"\\", c>> ELSE <<str[i]>>])

(* C28: the encoded remaps start and end with a double quote; what is between
   them is the entries name=newname joined by ';', with a backslash before
   every '=' of a name and before every ';' of a new name and every other
   character as it is. So {'=': ';'} gives "\==\;" and {';': '='} gives
   ";==" *)
C28_FileRemapsToStr ==
    call.pc = "remaps"
    => /\ Len(call.str) >= 2
       /\ call.str[1] = DQ
       /\ call.str[Len(call.str)] = DQ
       /\ Body(call.str)
            = str_join(<<";">>, [i \in 1..Len(Items(call.tokens)) |->
                    Escaped(Items(call.tokens)[i].key, "=") \o <<"=">>
                    \o Escaped(Items(call.tokens)[i].value, ";")])
       /\ call.tokens = << <<"=">>, <<";">> >>
            => call.str = <<DQ, "\\", "=", "=", "\\", ";", DQ>>
       /\ call.tokens = << <<";">>, <<"=">> >> => call.str = <<DQ, ";", "=", "=", DQ>>

C28_Witness ==
    /\ call.pc = "remaps"
    /\ call.tokens = << <<"=">>, <<";">> >>
    /\ call.str = <<DQ, "\\", "=", "=", "\\", ";", DQ>>

(* The scheduler's reading of the arguments and environment commands, by the
   rules of the condor_submit reference that the encoders quote: inside the
   outer double quotes a repeated double quote is one double quote, spaces
   and tabs outside single quotes delimit the entries, single quotes
   surround a section in which a repeated single quote is one single quote *)
NoEntries == [ok |-> TRUE, inq |-> FALSE, has |-> FALSE, cur |-> <<>>, out |-> <<>>]

read_char(st, str, i) ==
    LET c == str[i]
        twice == i < Len(str) /\ str[i + 1] = c
    IN CASE c = DQ ->
              IF twice THEN [st EXCEPT !.cur = Append(@, DQ), !.has = TRUE]
              ELSE [st EXCEPT !.ok = FALSE]
         [] c = SQ /\ st.inq /\ twice -> [st EXCEPT !.cur = Append(@, SQ)]
         [] c = SQ -> [st EXCEPT !.inq = ~@, !.has = TRUE]
         [] c \in {" ", TAB} /\ ~st.inq ->
              IF st.has THEN [st EXCEPT !.out = Append(@, st.cur), !.cur = <<>>, !.has = FALSE]
              ELSE st
         [] OTHER -> [st EXCEPT !.cur = Append(@, c), !.has = TRUE]

read_width(st, str, i) ==
    IF i < Len(str) /\ str[i + 1] = str[i] /\ (str[i] = DQ \/ (str[i] = SQ /\ st.inq))
    THEN 2 ELSE 1

RECURSIVE read_entries(_, _, _)
read_entries(str, i, st) ==
    IF i > Len(str) THEN st
    ELSE CHOOSE r \in {read_entries(str, i + read_width(v, str, i), read_char(v, str, i)) :
                            v \in {st}} : TRUE

Malformed == [ok |-> FALSE, items |-> <<>>]

Decoded(items) == [ok |-> TRUE, items |-> items]

decode_args(str) ==
    LET st == CHOOSE r \in {read_entries(Body(str), 1, NoEntries)} : TRUE
    IN IF ~st.ok \/ st.inq THEN Malformed
       ELSE IF st.has THEN Decoded(Append(st.out, st.cur)) ELSE Decoded(st.out)

(* An entry NAME=value is split at its first '=' *)
Equals(entry) == {i \in 1..Len(entry) : entry[i] = "="}

split_entry(entry) ==
    LET at == CHOOSE i \in Equals(entry) : \A j \in Equals(entry) : i <= j
    IN [key |-> SubSeq(entry, 1, at - 1), value |-> SubSeq(entry, at + 1, Len(entry))]

decode_environment(str) ==
    LET entries == decode_args(str)
    IN IF ~entries.ok THEN Malformed
       ELSE IF \E i \in 1..Len(entries.items) : Equals(entries.items[i]) = {} THEN Malformed
       ELSE Decoded([i \in 1..Len(entries.items) |-> split_entry(entries.items[i])])

(* The scheduler's reading of transfer_output_remaps: a backslash takes the
   next character as it is, ';' ends an entry, the first '=' of an entry ends
   its name *)
NoRemaps == [ok |-> TRUE, in_name |-> TRUE, has |-> FALSE, key |-> <<>>, value |-> <<>>,
             out |-> <<>>]

read_remap_char(st, str, i) ==
    LET c == str[i]
    IN CASE c = "\\" /\ i < Len(str) ->
              IF st.in_name THEN [st EXCEPT !.key = Append(@, str[i + 1]), !.has = TRUE]
              ELSE [st EXCEPT !.value = Append(@, str[i + 1])]
         [] c = ";" ->
              IF st.in_name THEN [st EXCEPT !.ok = FALSE]
              ELSE [st EXCEPT !.out = Append(@, [key |-> st.key, value |-> st.value]),
                              !.key = <<>>, !.value = <<>>, !.in_name = TRUE, !.has = FALSE]
         [] c = "=" /\ st.in_name -> [st EXCEPT !.in_name = FALSE, !.has = TRUE]
         [] OTHER ->
              IF st.in_name THEN [st EXCEPT !.key = Append(@, c), !.has = TRUE]
              ELSE [st EXCEPT !.value = Append(@, c)]

RECURSIVE read_remaps(_, _, _)
read_remaps(str, i, st) ==
    IF i > Len(str) THEN st
    ELSE CHOOSE r \in {read_remaps(str, i + (IF str[i] = "\\" /\ i < Len(str) THEN 2 ELSE 1),
                                   read_remap_char(v, str, i)) : v \in {st}} : TRUE

decode_remaps(str) ==
    LET st == CHOOSE r \in {read_remaps(Body(str), 1, NoRemaps)} : TRUE
    IN IF ~st.ok \/ (st.in_name /\ st.has) THEN Malformed
       ELSE IF ~st.in_name
            THEN Decoded(Append(st.out, [key |-> st.key, value |-> st.value]))
       ELSE Decoded(st.out)

(* The alphabet of the round trip: letters, space, both quotes, '=' and ';' *)
Plain == \A i \in 1..Len(call.tokens) : ~contains_any(call.tokens[i], {TAB})

(* C29: reading an encoded argument list, environment or remap table by the
   scheduler's rules gives back the list, the items of the environment and
   the items of the table that were encoded *)
C29_RoundTrip ==
    Plain
    => /\ call.pc = "arguments" => decode_args(call.str) = Decoded(call.tokens)
       /\ call.pc = "environment" => decode_environment(call.str) = Decoded(Items(call.tokens))
       /\ call.pc = "remaps" => decode_remaps(call.str) = Decoded(Items(call.tokens))

----------------------------------------------------------------------------
(* Properties of the poll loop *)

(* C30: the k-th sleep time is first * 2^(k-1) while that is below max, and
   max from then on; so the sequence starts at first, never decreases, never
   exceeds max and has a value for every round (10, 20, 40, 80, 160, 320,
   600, 600 with the defaults); and every query of the scheduler was preceded
   by a sleep of its own round *)
C30_PollSleepTimes ==
    call.pc \in {"for", "sleep", "query", "break"}
    => /\ \A k \in 1..Len(call.yielded) :
            /\ call.yielded[k] = IF call.first * 2 ^ (k - 1) < call.max
                                 THEN call.first * 2 ^ (k - 1) ELSE call.max
            /\ call.yielded[k] <= call.max
            /\ k > 1 => call.yielded[k - 1] <= call.yielded[k]
       /\ call.first = DefaultFirst /\ call.max = DefaultMax /\ Len(call.yielded) >= 8
            => SubSeq(call.yielded, 1, 8) = <<10, 20, 40, 80, 160, 320, 600, 600>>
       /\ call.pc = "for" => Len(call.yielded) = call.queries
       /\ call.pc = "sleep" => Len(call.yielded) = call.queries + 1
       /\ Len(call.slept) >= call.queries
       /\ call.pc \in {"for", "break"} => call.slept = call.yielded
       /\ call.queries >= 1 => Len(call.slept) >= 1

C30_Witness ==
    /\ call.pc = "break"
    /\ call.first = DefaultFirst
    /\ call.max = DefaultMax
    /\ call.slept = <<10, 20, 40, 80, 160, 320, 600, 600>>
    /\ call.queries = 8

----------------------------------------------------------------------------
(* Properties of a job run *)

(* C9: when a job has run, the collector has received the pair of every
   parameter set, and the cleanup handlers of the processor were invoked only
   afterwards *)
C9_CollectorReceivesAll ==
    job.pc = "done"
    => /\ job.exc = NoExc
       /\ Len(consumer.received) = N
       /\ \A k \in 1..N : consumer.received[k].params = stream[k]

====
